---- MODULE Spec2Model ----
(***************************************************************************)
(* Model of the Statsig MCP server: the dispatcher call_tool, the Console  *)
(* API client StatsigConsoleClient, the evaluation wrapper                 *)
(* StatsigMCPClient and the process lifecycle around them.                 *)
(*                                                                         *)
(* Python values are tagged records [t, v].  A str is a sequence of text   *)
(* fragments (an f-string is the concatenation of its parts), a dict is a  *)
(* sequence of <<key, value>> pairs in insertion order, a list is a        *)
(* sequence of values.                                                     *)
(*                                                                         *)
(* Spec     one call_tool at a time over the whole tool catalog and every  *)
(*          backend outcome, interleaved with the Console lifecycle        *)
(* SpecConc concurrent call_tool coroutines over a few tools               *)
(* SpecSDK  the evaluation wrapper StatsigMCPClient and its lifecycle      *)
(* SpecLife the lifecycle of either client, with no tool call              *)
(* SpecMain one run of main(): configuration, serving, cleanup, exit       *)
(* SpecMainFair the runs of main() that finish                             *)
(* SpecEither a process using one client: Spec or SpecSDK                  *)
(* SpecReport the formatted reports of every tool, on one client           *)
(***************************************************************************)
EXTENDS Integers, Sequences, FiniteSets, TLC

\* ------------------------------------------------------------------ bounds
MaxClients == 2      \* StatsigConsoleClient objects ever constructed
MaxHandles == 2      \* httpx.AsyncClient handles ever constructed
MaxTasks == 2        \* call_tool coroutines in flight at once (SpecConc)
MaxSdkHandles == 2   \* Statsig SDK instances ever constructed
MaxSdkInits == 2     \* StatsigMCPClient.initialize coroutines in flight
MaxItems == 2        \* items in the body of a list response (SpecReport)

\* ------------------------------------------------------------ Python values
Null == [t |-> "null", v |-> 0]
Bool(b) == [t |-> "bool", v |-> b]
Num(n) == [t |-> "num", v |-> n]
Str(s) == [t |-> "str", v |-> s]
Arr(s) == [t |-> "arr", v |-> s]
Obj(p) == [t |-> "obj", v |-> p]

IsNull(x) == x.t = "null"
IsObj(x) == x.t = "obj"
IsArr(x) == x.t = "arr"
IsStr(x) == x.t = "str"

\* bool(x)
Truthy(x) ==
  CASE x.t = "null" -> FALSE
    [] x.t = "bool" -> x.v
    [] x.t = "num" -> x.v # 0
    [] x.t = "str" -> \E i \in 1..Len(x.v) : x.v[i] # ""
    [] x.t = "arr" -> Len(x.v) > 0
    [] x.t = "obj" -> Len(x.v) > 0

\* dict operations
Keys(o) == { o.v[i][1] : i \in 1..Len(o.v) }
Has(o, k) == k \in Keys(o)
Get(o, k, d) ==
  IF Has(o, k) THEN o.v[CHOOSE i \in 1..Len(o.v) : o.v[i][1] = k][2] ELSE d

\* text fragments of str(x); containers are shown with their keys and items
RECURSIVE PyStr(_)
RECURSIVE PyStrItems(_, _)
RECURSIVE PyStrPairs(_, _)
PyStr(x) ==
  CASE x.t = "null" -> <<"None">>
    [] x.t = "bool" -> IF x.v THEN <<"True">> ELSE <<"False">>
    [] x.t = "num" -> <<ToString(x.v)>>
    [] x.t = "str" -> x.v
    [] x.t = "arr" -> <<"[">> \o PyStrItems(x.v, 1) \o <<"]">>
    [] x.t = "obj" -> <<"{">> \o PyStrPairs(x.v, 1) \o <<"}">>
PyStrItems(s, i) ==
  IF i > Len(s) THEN <<>>
  ELSE PyStr(s[i]) \o (IF i < Len(s) THEN <<", ">> ELSE <<>>) \o PyStrItems(s, i + 1)
PyStrPairs(p, i) ==
  IF i > Len(p) THEN <<>>
  ELSE <<"'", p[i][1], "': ">> \o PyStr(p[i][2])
       \o (IF i < Len(p) THEN <<", ">> ELSE <<>>) \o PyStrPairs(p, i + 1)

\* substring test on a text, fragment-wise: the fragment occurs in the text
Contains(text, frag) == \E i \in 1..Len(text) : text[i] = frag

\* --------------------------------------------------------------- exceptions
Exc(type, msg) == [type |-> type, msg |-> msg]
KeyErrorOf(k) == Exc("KeyError", <<"'", k, "'">>)
\* type(x).__name__
TypeName(t) ==
  CASE t = "null" -> "NoneType" [] t = "bool" -> "bool" [] t = "num" -> "int"
    [] t = "str" -> "str" [] t = "arr" -> "list" [] t = "obj" -> "dict" [] OTHER -> t
AttributeErrorOf(t) ==
  Exc("AttributeError", <<"'", TypeName(t), "' object has no attribute 'get'">>)
NoExc == Exc("", <<>>)
\* raise ValueError("<variable> environment variable is required")
RequiredError(variable) == Exc("ValueError", <<variable, " environment variable is required">>)
NotInitializedMsg == <<"Console API client ", "not initialized">>
AnalyticsNotInitializedMsg == <<"Client ", "not initialized", ". Call initialize() first.">>

\* ------------------------------------------------------------ tool catalog
ListTools == {"list_gates", "list_experiments", "list_dynamic_configs",
              "list_segments", "list_metrics", "list_target_apps", "list_api_keys"}
GetTools == {"get_gate", "get_experiment", "get_dynamic_config",
             "get_segment", "get_metric", "get_target_app"}
CreateTools == {"create_gate", "create_experiment", "create_dynamic_config",
                "create_segment"}
UpdateTools == {"update_gate", "update_experiment", "update_dynamic_config"}
DeleteTools == {"delete_gate", "delete_experiment", "delete_dynamic_config"}
AnalyticsTools == {"get_experiment_results", "get_experiment_pulse",
                   "get_metric_details", "export_pulse_report"}
OtherTools == {"list_audit_logs", "query_events", "get_user_by_email", "list_team_users"}

\* the names list_tools() declares
ToolNames == ListTools \cup GetTools \cup CreateTools \cup UpdateTools
             \cup DeleteTools \cup AnalyticsTools \cup OtherTools

\* mutation of list_tools: every schema declares "required": []
list_tools_none(name) == {}

\* inputSchema["required"] of each declared tool
list_tools(name) ==
  CASE name \in {"get_gate", "update_gate", "delete_gate"} -> {"gate_id"}
    [] name \in {"get_experiment", "update_experiment", "delete_experiment",
                 "get_experiment_results", "get_experiment_pulse",
                 "export_pulse_report"} -> {"experiment_id"}
    [] name \in {"get_dynamic_config", "update_dynamic_config",
                 "delete_dynamic_config"} -> {"config_id"}
    [] name \in CreateTools -> {"name"}
    [] name = "get_segment" -> {"segment_id"}
    [] name = "get_metric" -> {"metric_id"}
    [] name = "get_target_app" -> {"app_id"}
    [] name = "get_user_by_email" -> {"email"}
    [] name = "get_metric_details" -> {"metric_id", "experiment_id"}
    [] OTHER -> {}

\* ---------------------------------------------------------- HTTP backend
\* What one awaited httpx call can produce: an exception raised by the call
\* itself, or a response with a status and a body.  A body is a JSON value or
\* Bad, text that response.json() cannot parse.
Bad == [t |-> "bad", v |-> 0]
Thrown(e) == [kind |-> "exc", exc |-> e, status |-> 0, body |-> Bad]
Response(st, b) == [kind |-> "resp", exc |-> Exc("", <<>>), status |-> st, body |-> b]

ReasonPhrase(st) ==
  CASE st = 404 -> "Not Found" [] st = 500 -> "Internal Server Error" [] OTHER -> "Error"
HTTPStatusError(st) ==
  Exc("HTTPStatusError",
      <<IF st < 500 THEN "Client error '" ELSE "Server error '", ToString(st), " ",
        ReasonPhrase(st), "' for url">>)
JSONDecodeError == Exc("JSONDecodeError", <<"Expecting value">>)
ClosedClientError ==
  Exc("RuntimeError", <<"Cannot send a request, as the client has been closed.">>)
NoneTypeError == Exc("AttributeError", <<"'NoneType' object has no attribute 'get'">>)

\* outcome of a statement sequence: a returned value or a raised exception
Ret(x) == [raised |-> FALSE, val |-> x, exc |-> NoExc]
Raise(e) == [raised |-> TRUE, val |-> Null, exc |-> e]

\* response.raise_for_status() followed by response.json()
CheckedJson(out) ==
  IF out.kind = "exc" THEN Raise(out.exc)
  ELSE IF out.status >= 400 THEN Raise(HTTPStatusError(out.status))
  ELSE IF out.body.t = "bad" THEN Raise(JSONDecodeError)
  ELSE Ret(out.body)

\* response.raise_for_status() alone: the body is not read
CheckedStatus(out) ==
  IF out.kind = "exc" THEN Raise(out.exc)
  ELSE IF out.status >= 400 THEN Raise(HTTPStatusError(out.status))
  ELSE Ret(Null)

ErrorDict(e) == Obj(<< <<"error", Str(e.msg)>> >>)
FailDict(e) == Obj(<< <<"success", Bool(FALSE)>>, <<"error", Str(e.msg)>> >>)

\* ------------------------------------------------- StatsigConsoleClient
\* try block of list_gates; the other list_* methods and list_audit_logs
\* differ from it in the URL only
list_gates(out) ==
  LET r == CheckedJson(out) IN IF r.raised THEN ErrorDict(r.exc) ELSE r.val

ResourceOf(op) ==
  CASE op = "get_gate" -> "Gate"
    [] op = "get_experiment" -> "Experiment"
    [] op = "get_dynamic_config" -> "Dynamic config"
    [] op = "get_segment" -> "Segment"
    [] op = "get_metric" -> "Metric"
    [] op = "get_target_app" -> "Target app"

NotFoundError(op, id) ==
  Str(<<ResourceOf(op), " '">> \o PyStr(id) \o <<"' ", "not found">>)

\* mutation of get_gate: no test for status 404 before raise_for_status
get_gate_no404(op, id, out) ==
  LET r == CheckedJson(out) IN IF r.raised THEN ErrorDict(r.exc) ELSE r.val

\* try block of get_gate; get_experiment, get_dynamic_config, get_segment,
\* get_metric and get_target_app differ in the URL and the resource word
get_gate(op, id, out) ==
  IF out.kind = "exc" THEN ErrorDict(out.exc)
  ELSE IF out.status = 404
       THEN Obj(<< <<"found", Bool(FALSE)>>, <<"error", NotFoundError(op, id)>> >>)
       ELSE LET r == CheckedJson(out) IN IF r.raised THEN ErrorDict(r.exc) ELSE r.val

\* try block of create_gate; the other create_* methods differ in the payload
create_gate(out) ==
  LET r == CheckedJson(out)
  IN IF r.raised THEN FailDict(r.exc)
     ELSE Obj(<< <<"success", Bool(TRUE)>>, <<"data", r.val>> >>)

\* mutation of update_gate: response.raise_for_status() is left out
update_gate_unchecked(out) ==
  IF out.kind = "exc" THEN FailDict(out.exc) ELSE Obj(<< <<"success", Bool(TRUE)>> >>)

\* try block of update_gate; the other update_* and the delete_* methods
\* differ in the verb, the URL and the payload
update_gate(out) ==
  LET r == CheckedStatus(out)
  IN IF r.raised THEN FailDict(r.exc) ELSE Obj(<< <<"success", Bool(TRUE)>> >>)

\* seq[:limit]
SliceTo(s, limit) ==
  IF limit.t = "null" THEN s
  ELSE IF limit.v >= 0
       THEN SubSeq(s, 1, IF limit.v < Len(s) THEN limit.v ELSE Len(s))
       ELSE SubSeq(s, 1, IF Len(s) + limit.v > 0 THEN Len(s) + limit.v ELSE 0)

QueryFailMessage == Str(<<"Failed to query events via Console API">>)
EventsNote ==
  Str(<<"This shows event types, not user-specific events. Use Statsig Console for user event history.">>)

query_events(event_name, limit, out) ==
  LET fail(e) == Obj(<< <<"error", Str(e.msg)>>, <<"message", QueryFailMessage>> >>)
  IN IF out.kind = "exc" THEN fail(out.exc)
     ELSE IF Truthy(event_name)
     THEN IF out.status = 404
          THEN Obj(<< <<"event_name", event_name>>, <<"found", Bool(FALSE)>>,
                      <<"message", Str(<<"Event '">> \o PyStr(event_name)
                                       \o <<"' ", "not found">>)>> >>)
          ELSE LET r == CheckedJson(out)
               IN IF r.raised THEN fail(r.exc)
                  ELSE Obj(<< <<"event_name", event_name>>, <<"found", Bool(TRUE)>>,
                              <<"details", r.val>> >>)
     ELSE LET r == CheckedJson(out)
          IN IF r.raised THEN fail(r.exc)
             ELSE IF ~IsObj(r.val) THEN fail(AttributeErrorOf(r.val.t))
             ELSE LET d == Get(r.val, "data", Arr(<<>>))
                  IN IF d.t \notin {"arr", "str"} \/ limit.t \notin {"num", "null"}
                     THEN fail(Exc("TypeError", <<"object is not subscriptable">>))
                     ELSE LET events == SliceTo(d.v, limit)
                          IN Obj(<< <<"event_types", [t |-> d.t, v |-> events]>>,
                                    <<"total_found", Num(Len(events))>>,
                                    <<"note", EventsNote>> >>)

get_user_by_email(email, out) ==
  LET fail(e) == Obj(<< <<"email", email>>, <<"found", Bool(FALSE)>>,
                        <<"error", Str(e.msg)>>,
                        <<"message", Str(<<"Failed to get user via Console API">>)>> >>)
  IN IF out.kind = "exc" THEN fail(out.exc)
     ELSE IF out.status = 404
     THEN Obj(<< <<"email", email>>, <<"found", Bool(FALSE)>>,
                 <<"message", Str(<<"User with email '">> \o PyStr(email)
                                  \o <<"' ", "not found", " in Statsig team">>)>> >>)
     ELSE LET r == CheckedJson(out)
          IN IF r.raised THEN fail(r.exc)
             ELSE Obj(<< <<"email", email>>, <<"found", Bool(TRUE)>>,
                         <<"user_data", r.val>>,
                         <<"note", Str(<<"This shows team member info, not end-user data">>)>> >>)

list_team_users(out) ==
  LET fail(e) == Obj(<< <<"error", Str(e.msg)>>,
                        <<"message", Str(<<"Failed to list team users via Console API">>)>> >>)
      r == CheckedJson(out)
  IN IF r.raised THEN fail(r.exc)
     ELSE IF ~IsObj(r.val) THEN fail(AttributeErrorOf(r.val.t))
     ELSE LET users == Get(r.val, "data", Arr(<<>>))
          IN IF users.t \notin {"arr", "str", "obj"}
             THEN fail(Exc("TypeError", <<"object has no len()">>))
             ELSE Obj(<< <<"team_users", users>>,
                         <<"total_users", Num(Len(users.v))>>,
                         <<"note", Str(<<"These are team members, not end-users">>)>> >>)

\* mutation of get_experiment_results: the except clause returns the
\* two-field map of the older methods
get_experiment_results_old(out) ==
  LET r == CheckedJson(out)
  IN IF r.raised THEN FailDict(r.exc)
     ELSE Obj(<< <<"success", Bool(TRUE)>>, <<"data", r.val>>, <<"error", Null>> >>)

\* try block of get_experiment_results; get_experiment_pulse,
\* get_metric_details and export_pulse_report differ in the URL only
get_experiment_results(out) ==
  LET r == CheckedJson(out)
  IN IF r.raised
     THEN Obj(<< <<"success", Bool(FALSE)>>, <<"data", Obj(<<>>)>>,
                 <<"error", Str(r.exc.msg)>> >>)
     ELSE Obj(<< <<"success", Bool(TRUE)>>, <<"data", r.val>>, <<"error", Null>> >>)

\* mutation of Guard: the analytics methods have no guard
Guard_analytics(op, c) ==
  IF op \in AnalyticsTools THEN TRUE
  ELSE c.initialized /\ c.client # 0

\* the guard at the top of each method: TRUE when the method goes on to its
\* try block
Guard(op, c) ==
  IF op \in AnalyticsTools THEN c.initialized
  ELSE c.initialized /\ c.client # 0

GuardError(op) ==
  IF op \in AnalyticsTools THEN Exc("RuntimeError", AnalyticsNotInitializedMsg)
  ELSE Exc("RuntimeError", NotInitializedMsg)

\* the try block of method op called with positional arguments pargs, when
\* its awaited HTTP call produces out
ConsoleCall(op, pargs, out) ==
  CASE op \in ListTools \cup {"list_audit_logs"} -> list_gates(out)
    [] op \in GetTools -> get_gate(op, pargs[1], out)
    [] op \in CreateTools -> create_gate(out)
    [] op \in UpdateTools \cup DeleteTools -> update_gate(out)
    [] op = "query_events" -> query_events(pargs[1], pargs[2], out)
    [] op = "get_user_by_email" -> get_user_by_email(pargs[1], out)
    [] op = "list_team_users" -> list_team_users(out)
    [] op \in AnalyticsTools -> get_experiment_results(out)

\* ------------------------------------------------------ response formatters
\* Pictographs of the source are written as ASCII marks.
MarkError == "[x] "
MarkOk == "[ok] "
MarkEmpty == "[empty] "
MarkList == "[list] "
MarkItem == "[item] "
MarkBullet == "[*] "

RECURSIVE Flatten(_)
Flatten(ss) == IF Len(ss) = 0 THEN <<>> ELSE Head(ss) \o Flatten(Tail(ss))

\* "\n".join(output), output a sequence of lines
RECURSIVE Join(_)
Join(lines) ==
  IF Len(lines) = 0 THEN <<>>
  ELSE IF Len(lines) = 1 THEN lines[1]
  ELSE lines[1] \o <<"\n">> \o Join(Tail(lines))

\* the values a for loop over x visits; CanIter says whether iter(x) works
CanIter(x) == x.t \in {"arr", "obj", "str"}
Elems(x) ==
  CASE x.t = "arr" -> x.v
    [] x.t = "obj" -> [i \in 1..Len(x.v) |-> Str(<<x.v[i][1]>>)]
    [] x.t = "str" -> [i \in 1..Len(x.v) |-> Str(<<x.v[i]>>)]

HasLen(x) == x.t \in {"arr", "obj", "str"}
NotIterable == Exc("TypeError", <<"object is not iterable">>)
NoLen == Exc("TypeError", <<"object has no len()">>)
NoItems == Exc("AttributeError", <<"object has no attribute 'items'">>)

\* per: the outcomes (Ret(lines) or Raise) of the loop body on each element;
\* the loop stops at the first raise
Loop(per) ==
  IF \E i \in 1..Len(per) : per[i].raised
  THEN per[CHOOSE i \in 1..Len(per) :
             per[i].raised /\ \A j \in 1..(i - 1) : ~per[j].raised]
  ELSE Ret(Flatten([i \in 1..Len(per) |-> per[i].val]))

\* str.lower() on the status words the formatter tests
Lower(w) ==
  CASE w = "True" -> "true" [] w = "False" -> "false"
    [] w = "Active" -> "active" [] w = "Inactive" -> "inactive"
    [] w = "Enabled" -> "enabled" [] w = "Disabled" -> "disabled"
    [] OTHER -> w

\* key.replace("_", " ").title()
Title(k) ==
  CASE k = "name" -> "Name" [] k = "description" -> "Description"
    [] k = "status" -> "Status" [] k = "is_enabled" -> "Is Enabled"
    [] k = "isEnabled" -> "Isenabled" [] k = "id_type" -> "Id Type"
    [] k = "total" -> "Total" [] k = "items" -> "Items"
    [] k = "type" -> "Type"
    [] OTHER -> k

IsText(x, w) == x.t = "str" /\ x.v = <<w>>

ListItemLines(item) ==
  IF ~IsObj(item) THEN Raise(AttributeErrorOf(item.t))
  ELSE LET name == Get(item, "name", Get(item, "id", Str(<<"Unknown">>)))
           item_id == Get(item, "id", Get(item, "name", Str(<<"Unknown">>)))
           description == Get(item, "description", Str(<<"No description">>))
           status == Get(item, "status", Get(item, "isEnabled", Str(<<"Unknown">>)))
           st == PyStr(status)
           low == IF Len(st) = 1 THEN Lower(st[1]) ELSE ""
       IN Ret(<< <<MarkBullet>> \o PyStr(name) \o <<" (ID: ">> \o PyStr(item_id) \o <<")">> >>
              \o (IF Truthy(description) /\ ~IsText(description, "No description")
                  THEN << <<"   Description: ">> \o PyStr(description) >> ELSE <<>>)
              \o (IF low \in {"true", "active", "enabled"}
                  THEN << <<"   Status: ", MarkOk>> \o st >>
                  ELSE IF low \in {"false", "inactive", "disabled"}
                  THEN << <<"   Status: ", MarkError>> \o st >>
                  ELSE << <<"   Status: ">> \o st >>)
              \o << <<>> >>)

_format_list_result(result, resource_type) ==
  IF ~IsObj(result) THEN Raise(AttributeErrorOf(result.t))
  ELSE LET error == Get(result, "error", Null)
           items == Get(result, "data", Get(result, "items", Arr(<<>>)))
       IN IF Truthy(error)
          THEN Ret(<<MarkError, "Error listing ", resource_type, ": ">> \o PyStr(error))
          ELSE IF ~HasLen(items) THEN Raise(NoLen)
          ELSE LET total == Get(result, "total", Num(Len(items.v)))
                   header == <<MarkList, resource_type, " (">> \o PyStr(total) \o <<" found)">>
               IN IF ~Truthy(items)
                  THEN Ret(Join(<<header, <<"   No items found">> >>))
                  ELSE LET body == Loop([i \in 1..Len(Elems(items)) |->
                                           ListItemLines(Elems(items)[i])])
                       IN IF body.raised THEN body
                          ELSE Ret(Join(<<header, <<>> >> \o body.val))

ItemSkipKeys == {"id", "data", "found", "error"}

_format_item_result(result, resource_type, item_id) ==
  IF ~IsObj(result) THEN Raise(AttributeErrorOf(result.t))
  ELSE LET error == Get(result, "error", Null)
           data == Get(result, "data", result)
       IN IF Truthy(error)
          THEN Ret(<<MarkError, "Error getting ", resource_type, " ">> \o PyStr(item_id)
                   \o <<": ">> \o PyStr(error))
          ELSE IF ~Truthy(Get(result, "found", Bool(TRUE)))
          THEN Ret(<<MarkEmpty, resource_type, " '">> \o PyStr(item_id)
                   \o <<"' ", "not found">>)
          ELSE IF ~IsObj(data) THEN Raise(NoItems)
          ELSE LET shown == SelectSeq(data.v, LAMBDA kv : kv[1] \notin ItemSkipKeys)
               IN Ret(Join(<< <<MarkItem, resource_type, ": ">> \o PyStr(item_id), <<>> >>
                           \o [i \in 1..Len(shown) |->
                                 <<"   ", Title(shown[i][1]), ": ">> \o PyStr(shown[i][2])]))

_format_create_result(result, resource_type, name) ==
  IF ~IsObj(result) THEN Raise(AttributeErrorOf(result.t))
  ELSE LET success == Get(result, "success", Bool(FALSE))
           error == Get(result, "error", Null)
           data == Get(result, "data", Obj(<<>>))
       IN IF Truthy(error)
          THEN Ret(<<MarkError, "Error creating ", resource_type, " '">> \o PyStr(name)
                   \o <<"': ">> \o PyStr(error))
          ELSE IF Truthy(success)
          THEN IF ~IsObj(data) THEN Raise(AttributeErrorOf(data.t))
               ELSE Ret(<<MarkOk, "Successfully created ", resource_type, " '">>
                        \o PyStr(name) \o <<"' (ID: ">>
                        \o PyStr(Get(result, "id", Get(data, "id", Str(<<"Unknown">>))))
                        \o <<")">>)
          ELSE Ret(<<MarkError, "Failed to create ", resource_type, " '">> \o PyStr(name)
                   \o <<"': ">> \o PyStr(Get(result, "message", Str(<<"Unknown error">>))))

\* _format_update_result and _format_delete_result differ in the verb only
FormatMutateResult(result, resource_type, item_id, verbing, verbed, verb) ==
  IF ~IsObj(result) THEN Raise(AttributeErrorOf(result.t))
  ELSE LET success == Get(result, "success", Bool(FALSE))
           error == Get(result, "error", Null)
       IN IF Truthy(error)
          THEN Ret(<<MarkError, "Error ", verbing, " ", resource_type, " ">>
                   \o PyStr(item_id) \o <<": ">> \o PyStr(error))
          ELSE IF Truthy(success)
          THEN Ret(<<MarkOk, "Successfully ", verbed, " ", resource_type, " ">>
                   \o PyStr(item_id))
          ELSE Ret(<<MarkError, "Failed to ", verb, " ", resource_type, " ">>
                   \o PyStr(item_id) \o <<": ">>
                   \o PyStr(Get(result, "message", Str(<<"Unknown error">>))))

_format_update_result(result, resource_type, item_id) ==
  FormatMutateResult(result, resource_type, item_id, "updating", "updated", "update")

_format_delete_result(result, resource_type, item_id) ==
  FormatMutateResult(result, resource_type, item_id, "deleting", "deleted", "delete")

AuditLogLines(log) ==
  IF ~IsObj(log) THEN Raise(AttributeErrorOf(log.t))
  ELSE LET unknown == Str(<<"Unknown">>)
       IN Ret(<< <<"[log] ">> \o PyStr(Get(log, "timestamp", Get(log, "createdAt", unknown))),
                 <<"   Action: ">> \o PyStr(Get(log, "action", Get(log, "event", unknown))),
                 <<"   User: ">> \o PyStr(Get(log, "user", Get(log, "actor", unknown))),
                 <<"   Target: ">> \o PyStr(Get(log, "target", Get(log, "resource", unknown))),
                 <<>> >>)

_format_audit_logs_result(result) ==
  IF ~IsObj(result) THEN Raise(AttributeErrorOf(result.t))
  ELSE LET error == Get(result, "error", Null)
           logs == Get(result, "data", Get(result, "logs", Arr(<<>>)))
       IN IF Truthy(error)
          THEN Ret(<<MarkError, "Error listing audit logs: ">> \o PyStr(error))
          ELSE IF ~HasLen(logs) THEN Raise(NoLen)
          ELSE LET total == Get(result, "total", Num(Len(logs.v)))
                   header == <<"[logs] ", "Audit Logs (">> \o PyStr(total) \o <<" found)">>
               IN IF ~Truthy(logs)
                  THEN Ret(Join(<<header, <<"   No logs found">> >>))
                  ELSE LET body == Loop([i \in 1..Len(Elems(logs)) |->
                                           AuditLogLines(Elems(logs)[i])])
                       IN IF body.raised THEN body
                          ELSE Ret(Join(<<header, <<>> >> \o body.val))

EventTypeLines(event) ==
  IF ~IsObj(event) THEN Raise(AttributeErrorOf(event.t))
  ELSE Ret(<< <<MarkBullet>> \o PyStr(Get(event, "name", Str(<<"Unknown">>))),
              <<"   Description: ">>
                \o PyStr(Get(event, "description", Str(<<"No description">>))) >>)

\* for key, value in d.items(): output.append(f"{indent}{key}: {value}")
KeyValueLines(d, indent, skip) ==
  LET shown == SelectSeq(d.v, LAMBDA kv : kv[1] \notin skip)
  IN [i \in 1..Len(shown) |-> <<indent, shown[i][1], ": ">> \o PyStr(shown[i][2])]

_format_events_query_result(result) ==
  IF ~IsObj(result) THEN Raise(AttributeErrorOf(result.t))
  ELSE LET error == Get(result, "error", Null)
       IN IF Truthy(error)
          THEN Ret(<<MarkError, "Error querying events: ">> \o PyStr(error))
          ELSE IF Has(result, "event_name")
          THEN LET event_name == Get(result, "event_name", Null)
                   details == Get(result, "details", Obj(<<>>))
               IN IF ~Truthy(Get(result, "found", Bool(FALSE)))
                  THEN Ret(<<MarkEmpty>>
                           \o PyStr(Get(result, "message",
                                        Str(<<"Event '">> \o PyStr(event_name)
                                            \o <<"' ", "not found">>))))
                  ELSE IF Truthy(details) /\ ~IsObj(details) THEN Raise(NoItems)
                  ELSE Ret(Join(<< <<"[events] ", "Event Details: ">> \o PyStr(event_name) >>
                                \o (IF Truthy(details) THEN KeyValueLines(details, "   ", {})
                                    ELSE <<>>)))
          ELSE LET event_types == Get(result, "event_types", Arr(<<>>))
                   total_found == Get(result, "total_found", Num(0))
                   note == Get(result, "note", Str(<<>>))
                   head == << <<"[events] ", "Event Types (">> \o PyStr(total_found)
                              \o <<" found)">> >>
                           \o (IF Truthy(note) THEN << <<"[i]  ">> \o PyStr(note) >> ELSE <<>>)
                           \o << <<>> >>
               IN IF ~CanIter(event_types) THEN Raise(NotIterable)
                  ELSE LET body == Loop([i \in 1..Len(Elems(event_types)) |->
                                           EventTypeLines(Elems(event_types)[i])])
                       IN IF body.raised THEN body ELSE Ret(Join(head \o body.val))

_format_user_result(result) ==
  IF ~IsObj(result) THEN Raise(AttributeErrorOf(result.t))
  ELSE LET email == Get(result, "email", Str(<<"Unknown">>))
           found == Get(result, "found", Bool(FALSE))
           error == Get(result, "error", Null)
           user_data == Get(result, "user_data", Obj(<<>>))
           note == Get(result, "note", Str(<<>>))
       IN IF Truthy(error)
          THEN Ret(<<MarkError, "Error getting user ">> \o PyStr(email) \o <<": ">>
                   \o PyStr(error))
          ELSE IF ~Truthy(found)
          THEN Ret(<<"[user] ">>
                   \o PyStr(Get(result, "message",
                                Str(<<"User '">> \o PyStr(email) \o <<"' ", "not found">>))))
          ELSE IF Truthy(user_data) /\ ~IsObj(user_data) THEN Raise(NoItems)
          ELSE Ret(Join(<< <<"[user] ", "Team Member: ">> \o PyStr(email) >>
                        \o (IF Truthy(note) THEN << <<"[i]  ">> \o PyStr(note) >> ELSE <<>>)
                        \o << <<>> >>
                        \o (IF Truthy(user_data) THEN KeyValueLines(user_data, "   ", {"email"})
                            ELSE <<>>)))

TeamUserLines(user) ==
  IF ~IsObj(user) THEN Raise(AttributeErrorOf(user.t))
  ELSE LET unknown == Str(<<"Unknown">>)
       IN Ret(<< <<"[user] ">>
                   \o PyStr(Get(user, "name", Get(user, "firstName", unknown)))
                   \o <<" (">> \o PyStr(Get(user, "email", unknown)) \o <<")">>,
                 <<"   Role: ">> \o PyStr(Get(user, "role", unknown)) >>)

_format_team_users_result(result) ==
  IF ~IsObj(result) THEN Raise(AttributeErrorOf(result.t))
  ELSE LET error == Get(result, "error", Null)
           team_users == Get(result, "team_users", Arr(<<>>))
           total_users == Get(result, "total_users", Num(0))
           note == Get(result, "note", Str(<<>>))
           head == << <<"[users] ", "Team Members (">> \o PyStr(total_users)
                      \o <<" total)">> >>
                   \o (IF Truthy(note) THEN << <<"[i]  ">> \o PyStr(note) >> ELSE <<>>)
                   \o << <<>> >>
       IN IF Truthy(error)
          THEN Ret(<<MarkError, "Error listing team users: ">> \o PyStr(error))
          ELSE IF ~CanIter(team_users) THEN Raise(NotIterable)
          ELSE LET body == Loop([i \in 1..Len(Elems(team_users)) |->
                                   TeamUserLines(Elems(team_users)[i])])
               IN IF body.raised THEN body ELSE Ret(Join(head \o body.val))

\* f"{x:<spec>}" for a numeric format spec: numbers and bools format, every
\* other type raises
BadFormat == Exc("TypeError", <<"unsupported format string">>)
CanFormat(x) == x.t \in {"num", "bool"}
AsInt(x) == IF x.t = "bool" THEN (IF x.v THEN 1 ELSE 0) ELSE x.v
Percent2(x) == <<ToString(100 * AsInt(x)), ".00%">>
Fixed(x, zeros) == <<ToString(AsInt(x)), zeros>>
Grouped(x) == <<ToString(AsInt(x))>>

\* loop body of the primary (withP) and secondary metric sections
MetricLines(metric, withP) ==
  IF ~IsObj(metric) THEN Raise(AttributeErrorOf(metric.t))
  ELSE LET name == Get(metric, "metric_name", Str(<<"Unknown">>))
           lift == Get(metric, "lift", Null)
           p_value == Get(metric, "p_value", Null)
           significance == Get(metric, "significance", Str(<<"Unknown">>))
       IN IF ~IsNull(lift) /\ ~CanFormat(lift) THEN Raise(BadFormat)
          ELSE IF withP /\ ~IsNull(p_value) /\ ~CanFormat(p_value) THEN Raise(BadFormat)
          ELSE Ret(<< <<"   - ">> \o PyStr(name) >>
                   \o (IF ~IsNull(lift) THEN << <<"     Lift: ">> \o Percent2(lift) >>
                       ELSE <<>>)
                   \o (IF withP /\ ~IsNull(p_value)
                       THEN << <<"     P-value: ">> \o Fixed(p_value, ".0000") >> ELSE <<>>)
                   \o << <<"     Significance: ">> \o PyStr(significance), <<>> >>)

\* if xs: output.append(title); for x in xs: <body>
Section(xs, title, Body(_)) ==
  IF ~Truthy(xs) THEN Ret(<<>>)
  ELSE IF ~CanIter(xs) THEN Raise(NotIterable)
  ELSE LET body == Loop([i \in 1..Len(Elems(xs)) |-> Body(Elems(xs)[i])])
       IN IF body.raised THEN body ELSE Ret(<< <<title>> >> \o body.val)

_format_experiment_results(result) ==
  IF ~IsObj(result) THEN Raise(AttributeErrorOf(result.t))
  ELSE LET error == Get(result, "error", Null)
           data == Get(result, "data", Obj(<<>>))
       IN IF Truthy(error)
          THEN Ret(<<MarkError, "Error getting experiment results: ">> \o PyStr(error))
          ELSE IF ~IsObj(data) THEN Raise(AttributeErrorOf(data.t))
          ELSE LET unknown == Str(<<"Unknown">>)
                   head == << <<"[results] ", "Experiment Results: ">>
                              \o PyStr(Get(data, "experiment_name", unknown)) \o <<" (">>
                              \o PyStr(Get(data, "experiment_id", unknown)) \o <<")">>,
                              <<"   Status: ">> \o PyStr(Get(data, "status", unknown)),
                              <<>> >>
                   prim == Section(Get(data, "primary_metrics", Arr(<<>>)),
                                   "Primary Metrics:", LAMBDA m : MetricLines(m, TRUE))
                   sec == Section(Get(data, "secondary_metrics", Arr(<<>>)),
                                  "Secondary Metrics:", LAMBDA m : MetricLines(m, FALSE))
                   recommendation == Get(data, "recommendation", Null)
               IN IF prim.raised THEN prim
                  ELSE IF sec.raised THEN sec
                  ELSE Ret(Join(head \o prim.val \o sec.val
                                \o (IF Truthy(recommendation)
                                    THEN << <<"Recommendation: ">> \o PyStr(recommendation) >>
                                    ELSE <<>>)))

AlertLines(alert) ==
  IF ~IsObj(alert) THEN Raise(AttributeErrorOf(alert.t))
  ELSE Ret(<< <<"   - ">> \o PyStr(Get(alert, "type", Str(<<"Unknown">>))) \o <<": ">>
                \o PyStr(Get(alert, "message", Str(<<"No details">>))) >>)

_format_pulse_data(result) ==
  IF ~IsObj(result) THEN Raise(AttributeErrorOf(result.t))
  ELSE LET error == Get(result, "error", Null)
           data == Get(result, "data", Obj(<<>>))
       IN IF Truthy(error)
          THEN Ret(<<MarkError, "Error getting pulse data: ">> \o PyStr(error))
          ELSE IF ~IsObj(data) THEN Raise(AttributeErrorOf(data.t))
          ELSE LET health_score == Get(data, "health_score", Null)
                   indicators == Get(data, "performance_indicators", Obj(<<>>))
                   head == << <<"[pulse] ", "Experiment Pulse: ">>
                              \o PyStr(Get(data, "experiment_id", Str(<<"Unknown">>))) >>
                   health ==
                     IF IsNull(health_score) THEN <<>>
                     ELSE << <<"   Health Score: ">> \o Fixed(health_score, ".0") \o <<"/10">>,
                             IF AsInt(health_score) >= 8 THEN <<"   Status: ", "Healthy">>
                             ELSE IF AsInt(health_score) >= 6 THEN <<"   Status: ", "Moderate">>
                             ELSE <<"   Status: ", "Needs Attention">> >>
                   alerts == Section(Get(data, "alerts", Arr(<<>>)), "Alerts:", AlertLines)
                   recs == Section(Get(data, "recommendations", Arr(<<>>)), "Recommendations:",
                                   LAMBDA r : Ret(<< <<"   - ">> \o PyStr(r) >>))
               IN IF ~IsNull(health_score) /\ ~CanFormat(health_score) THEN Raise(BadFormat)
                  ELSE IF Truthy(indicators) /\ ~IsObj(indicators) THEN Raise(NoItems)
                  ELSE IF alerts.raised THEN alerts
                  ELSE IF recs.raised THEN recs
                  ELSE Ret(Join(head \o health \o << <<>> >>
                                \o (IF Truthy(indicators)
                                    THEN << <<"Performance Indicators:">> >>
                                         \o KeyValueLines(indicators, "   - ", {})
                                         \o << <<>> >>
                                    ELSE <<>>)
                                \o (IF Len(alerts.val) > 0 THEN alerts.val \o << <<>> >>
                                    ELSE <<>>)
                                \o recs.val))

_format_metric_details(result) ==
  IF ~IsObj(result) THEN Raise(AttributeErrorOf(result.t))
  ELSE LET error == Get(result, "error", Null)
           data == Get(result, "data", Obj(<<>>))
       IN IF Truthy(error)
          THEN Ret(<<MarkError, "Error getting metric details: ">> \o PyStr(error))
          ELSE IF ~IsObj(data) THEN Raise(AttributeErrorOf(data.t))
          ELSE LET g(k) == Get(data, k, Null)
                   both(a, b) == ~IsNull(g(a)) /\ ~IsNull(g(b))
                   bad(k) == ~IsNull(g(k)) /\ ~CanFormat(g(k))
                   head == << <<"[metric] ", "Metric Details: ">>
                              \o PyStr(Get(data, "metric_name", Str(<<"Unknown">>))),
                              <<"   Type: ">>
                              \o PyStr(Get(data, "metric_type", Str(<<"Unknown">>))),
                              <<>> >>
                   values ==
                     IF both("control_value", "test_value")
                     THEN << <<"Values:">>,
                             <<"   Control: ">> \o Fixed(g("control_value"), ".00"),
                             <<"   Test: ">> \o Fixed(g("test_value"), ".00"), <<>> >>
                     ELSE <<>>
                   stats ==
                     << <<"Statistical Analysis:">> >>
                     \o (IF ~IsNull(g("lift")) THEN << <<"   Lift: ">> \o Percent2(g("lift")) >>
                         ELSE <<>>)
                     \o (IF both("lift_ci_lower", "lift_ci_upper")
                         THEN << <<"   95% CI: [">> \o Percent2(g("lift_ci_lower")) \o <<", ">>
                                 \o Percent2(g("lift_ci_upper")) \o <<"]">> >>
                         ELSE <<>>)
                     \o (IF ~IsNull(g("p_value"))
                         THEN << <<"   P-value: ">> \o Fixed(g("p_value"), ".0000") >>
                         ELSE <<>>)
                     \o (IF Truthy(g("significance"))
                         THEN << <<"   Significance: ">> \o PyStr(g("significance")) >>
                         ELSE <<>>)
                   samples ==
                     IF ~IsNull(g("sample_size_control")) \/ ~IsNull(g("sample_size_test"))
                     THEN << <<>>, <<"Sample Sizes:">> >>
                          \o (IF ~IsNull(g("sample_size_control"))
                              THEN << <<"   Control: ">> \o Grouped(g("sample_size_control")) >>
                              ELSE <<>>)
                          \o (IF ~IsNull(g("sample_size_test"))
                              THEN << <<"   Test: ">> \o Grouped(g("sample_size_test")) >>
                              ELSE <<>>)
                     ELSE <<>>
               IN IF (both("control_value", "test_value")
                      /\ (bad("control_value") \/ bad("test_value")))
                     \/ bad("lift")
                     \/ (both("lift_ci_lower", "lift_ci_upper")
                         /\ (bad("lift_ci_lower") \/ bad("lift_ci_upper")))
                     \/ bad("p_value") \/ bad("sample_size_control") \/ bad("sample_size_test")
                  THEN Raise(BadFormat)
                  ELSE Ret(Join(head \o values \o stats \o samples))

\* str.upper() on the export formats
Upper(w) ==
  CASE w = "json" -> "JSON" [] w = "csv" -> "CSV" [] w = "summary" -> "SUMMARY"
    [] w = "xml" -> "XML" [] OTHER -> w

_format_pulse_report(result, format_type) ==
  IF ~IsObj(result) THEN Raise(AttributeErrorOf(result.t))
  ELSE LET error == Get(result, "error", Null)
           data == Get(result, "data", Obj(<<>>))
           head == << <<"[list] ", "Pulse Report Export (">>
                      \o [i \in 1..Len(format_type.v) |-> Upper(format_type.v[i])]
                      \o <<")">>, <<>> >>
       IN IF Truthy(error)
          THEN Ret(<<MarkError, "Error exporting pulse report: ">> \o PyStr(error))
          ELSE IF ~IsStr(format_type)
          THEN Raise(Exc("AttributeError", <<"object has no attribute 'upper'">>))
          ELSE IF IsText(format_type, "json")
          THEN IF ~IsObj(data) THEN Raise(AttributeErrorOf(data.t))
               ELSE Ret(Join(head
                     \o << <<"Experiment: ">>
                           \o PyStr(Get(data, "experiment_id", Str(<<"Unknown">>))),
                           <<"Report Date: ">>
                           \o PyStr(Get(data, "report_date", Str(<<"Unknown">>))),
                           <<>>, <<"Export contains:">>,
                           <<"   - Complete experiment results">>,
                           <<"   - Statistical analysis">>,
                           <<"   - Health metrics">>,
                           <<"   - Performance indicators">> >>))
          ELSE IF IsText(format_type, "csv")
          THEN Ret(Join(head \o << <<"CSV Export Ready">>,
                                   <<"   - Metrics data in tabular format">>,
                                   <<"   - Statistical significance">>,
                                   <<"   - Confidence intervals">> >>))
          ELSE IF IsText(format_type, "summary")
          THEN IF ~IsObj(data) THEN Raise(AttributeErrorOf(data.t))
               ELSE Ret(Join(head \o << <<"Executive Summary">>,
                                        <<"   ">> \o PyStr(Get(data, "summary",
                                                 Str(<<"No summary available">>))) >>))
          ELSE Ret(Join(head))

\* ----------------------------------------------------------------- call_tool
\* mutation of Subscripts: the create_* branches read "name" with
\* arguments.get, so its absence raises nothing
Subscripts_create_get(name) ==
  CASE name \in {"get_gate", "update_gate", "delete_gate"} -> <<"gate_id">>
    [] name \in {"get_experiment", "update_experiment", "delete_experiment",
                 "get_experiment_results", "get_experiment_pulse",
                 "export_pulse_report"} -> <<"experiment_id">>
    [] name \in {"get_dynamic_config", "update_dynamic_config",
                 "delete_dynamic_config"} -> <<"config_id">>
    [] name = "get_segment" -> <<"segment_id">>
    [] name = "get_metric" -> <<"metric_id">>
    [] name = "get_target_app" -> <<"app_id">>
    [] name = "get_user_by_email" -> <<"email">>
    [] name = "get_metric_details" -> <<"metric_id", "experiment_id">>
    [] OTHER -> <<>>

\* the arguments[...] subscripts of each branch, in the order the branch
\* evaluates them; every other argument is read with arguments.get
Subscripts(name) ==
  CASE name \in {"get_gate", "update_gate", "delete_gate"} -> <<"gate_id">>
    [] name \in {"get_experiment", "update_experiment", "delete_experiment",
                 "get_experiment_results", "get_experiment_pulse",
                 "export_pulse_report"} -> <<"experiment_id">>
    [] name \in {"get_dynamic_config", "update_dynamic_config",
                 "delete_dynamic_config"} -> <<"config_id">>
    [] name \in CreateTools -> <<"name">>
    [] name = "get_segment" -> <<"segment_id">>
    [] name = "get_metric" -> <<"metric_id">>
    [] name = "get_target_app" -> <<"app_id">>
    [] name = "get_user_by_email" -> <<"email">>
    [] name = "get_metric_details" -> <<"metric_id", "experiment_id">>
    [] OTHER -> <<>>

\* the names the if/elif chain of call_tool has a branch for
Branches == ToolNames

Missing(name, arguments) ==
  { i \in 1..Len(Subscripts(name)) : ~Has(arguments, Subscripts(name)[i]) }
FirstMissing(name, arguments) ==
  Subscripts(name)[CHOOSE i \in Missing(name, arguments) :
                     \A j \in Missing(name, arguments) : i <= j]

\* {k: v for k, v in arguments.items() if k != key}
Without(arguments, key) == Obj(SelectSeq(arguments.v, LAMBDA kv : kv[1] # key))

\* positional arguments of the client method the branch calls
Pargs(name, arguments) ==
  LET a(k) == Get(arguments, k, Null)
      first == a(Subscripts(name)[1])
  IN CASE name \in GetTools \cup DeleteTools \cup {"get_user_by_email",
                                                     "get_experiment_pulse"} -> <<first>>
       [] name \in UpdateTools -> <<first, Without(arguments, Subscripts(name)[1])>>
       [] name = "create_gate" ->
            <<first, Get(arguments, "description", Str(<<>>)),
              Get(arguments, "is_enabled", Bool(FALSE))>>
       [] name = "create_experiment" ->
            <<first, Get(arguments, "description", Str(<<>>)), a("hypothesis")>>
       [] name \in {"create_dynamic_config", "create_segment"} ->
            <<first, Get(arguments, "description", Str(<<>>))>>
       [] name = "list_audit_logs" ->
            <<Get(arguments, "limit", Num(20)), a("from_date"), a("to_date")>>
       [] name = "query_events" -> <<a("event_name"), Get(arguments, "limit", Num(10))>>
       [] name = "get_experiment_results" ->
            <<first, Get(arguments, "include_metrics", Bool(TRUE))>>
       [] name = "get_metric_details" -> <<first, a("experiment_id")>>
       [] name = "export_pulse_report" ->
            <<first, Get(arguments, "format", Str(<<"json">>))>>
       [] name \in {"list_target_apps", "list_api_keys", "list_team_users"} -> <<>>
       [] OTHER -> <<a("limit")>>

ResourceType(name) ==
  CASE name \in {"list_gates"} -> "Feature Gates"
    [] name = "list_experiments" -> "Experiments"
    [] name = "list_dynamic_configs" -> "Dynamic Configs"
    [] name = "list_segments" -> "Segments"
    [] name = "list_metrics" -> "Metrics"
    [] name = "list_target_apps" -> "Target Apps"
    [] name = "list_api_keys" -> "API Keys"
    [] name \in {"get_gate", "create_gate", "update_gate", "delete_gate"} -> "Feature Gate"
    [] name \in {"get_experiment", "create_experiment", "update_experiment",
                 "delete_experiment"} -> "Experiment"
    [] name \in {"get_dynamic_config", "create_dynamic_config", "update_dynamic_config",
                 "delete_dynamic_config"} -> "Dynamic Config"
    [] name \in {"get_segment", "create_segment"} -> "Segment"
    [] name = "get_metric" -> "Metric"
    [] name = "get_target_app" -> "Target App"
    [] OTHER -> ""

\* the formatter call of the branch, applied to the awaited result
FormatResult(name, arguments, result) ==
  LET p == Pargs(name, arguments)
  IN CASE name \in ListTools -> _format_list_result(result, ResourceType(name))
       [] name \in GetTools -> _format_item_result(result, ResourceType(name), p[1])
       [] name \in CreateTools -> _format_create_result(result, ResourceType(name), p[1])
       [] name \in UpdateTools -> _format_update_result(result, ResourceType(name), p[1])
       [] name \in DeleteTools -> _format_delete_result(result, ResourceType(name), p[1])
       [] name = "list_audit_logs" -> _format_audit_logs_result(result)
       [] name = "query_events" -> _format_events_query_result(result)
       [] name = "get_user_by_email" -> _format_user_result(result)
       [] name = "list_team_users" -> _format_team_users_result(result)
       [] name = "get_experiment_results" -> _format_experiment_results(result)
       [] name = "get_experiment_pulse" -> _format_pulse_data(result)
       [] name = "get_metric_details" -> _format_metric_details(result)
       [] name = "export_pulse_report" -> _format_pulse_report(result, p[2])

TextItem(text) == << [type |-> "text", text |-> text] >>
NotInitializedReply == TextItem(<<"Error: Statsig client ", "not initialized">>)
\* mutation of UnknownToolReply: the chain has no else branch and the
\* function falls off its end
UnknownToolReply_none(name) == <<>>
UnknownToolReply(name) == TextItem(<<"Unknown tool: ", name>>)
\* the except Exception clause that encloses the whole chain
ErrorReply(name, e) == TextItem(<<"Error calling tool ", name, ": ">> \o e.msg)

\* mutation of Finish: the formatter is called outside the try block, so what
\* it raises leaves call_tool and no text item is returned
Finish_outside(name, arguments, result) ==
  LET f == FormatResult(name, arguments, result)
  IN IF f.raised THEN <<>> ELSE TextItem(f.val)

\* call_tool from the awaited client method's return to its own return
Finish(name, arguments, result) ==
  LET f == FormatResult(name, arguments, result)
  IN IF f.raised THEN ErrorReply(name, f.exc) ELSE TextItem(f.val)

\* --------------------------------------------------------- StatsigMCPClient
\* _create_statsig_user: the keyword arguments handed to StatsigUser
OptionalUserFields ==
  << <<"user_email", "email">>, <<"user_country", "country">>, <<"user_ip", "ip">>,
     <<"user_agent", "user_agent">>, <<"app_version", "app_version">>,
     <<"locale", "locale">>, <<"custom_attributes", "custom">>,
     <<"private_attributes", "private_attributes">> >>

\* mutation of _create_statsig_user: every attribute that is present is
\* passed, an empty one too
_create_statsig_user_present(user_attrs) ==
  IF ~Has(user_attrs, "user_id") THEN Raise(KeyErrorOf("user_id"))
  ELSE LET given == SelectSeq(OptionalUserFields, LAMBDA f : Has(user_attrs, f[1]))
       IN Ret(Obj(<< <<"user_id", Get(user_attrs, "user_id", Null)>> >>
                  \o [i \in 1..Len(given) |-> <<given[i][2], Get(user_attrs, given[i][1], Null)>>]))

_create_statsig_user(user_attrs) ==
  IF ~Has(user_attrs, "user_id") THEN Raise(KeyErrorOf("user_id"))
  ELSE LET given == SelectSeq(OptionalUserFields,
                              LAMBDA f : Truthy(Get(user_attrs, f[1], Null)))
       IN Ret(Obj(<< <<"user_id", Get(user_attrs, "user_id", Null)>> >>
                  \o [i \in 1..Len(given) |-> <<given[i][2], Get(user_attrs, given[i][1], Null)>>]))

\* What the SDK does with one evaluation call: it throws, or it returns an
\* object.  has lists the attributes the returned object carries.
SdkThrows(msg) == [throws |-> TRUE, msg |-> msg, has |-> {}, value |-> Null,
                   rule_id |-> "", group_name |-> Null]
SdkObject(has, value, rule_id, group_name) ==
  [throws |-> FALSE, msg |-> <<>>, has |-> has, value |-> value, rule_id |-> rule_id,
   group_name |-> group_name]
NoAttribute == Exc("AttributeError", <<"object has no attribute 'get_value'">>)

\* try/except of check_feature_gate, the SDK call behaving as sdk
check_feature_gate(gate_name, sdk) ==
  IF sdk.throws \/ ("value" \notin sdk.has /\ "get_value" \notin sdk.has)
  THEN Ret(Obj(<< <<"gate_name", gate_name>>, <<"value", Bool(FALSE)>>,
                  <<"rule_id", Str(<<"error">>)>>, <<"group_name", Null>> >>))
  ELSE Ret(Obj(<< <<"gate_name", gate_name>>, <<"value", sdk.value>>,
                  <<"rule_id", IF "rule_id" \in sdk.has THEN Str(<<sdk.rule_id>>)
                               ELSE Str(<<"unknown">>)>>,
                  <<"group_name", IF "group_name" \in sdk.has THEN sdk.group_name
                                  ELSE Null>> >>))

\* mutation of EvaluateOp: the except clause returns no rule_id marker
EvaluateOp_unmarked(name_key, getter, last_key, last_attr, name, sdk) ==
  Ret(Obj(<< <<name_key, name>>,
             <<"value", IF sdk.throws THEN Obj(<<>>) ELSE sdk.value>>,
             <<"rule_id", Str(<<"unknown">>)>>, <<last_key, Null>> >>))

\* try/except shared by get_dynamic_config, get_experiment and get_layer: the
\* value is read from .value, else from getter(), else left empty
EvaluateOp(name_key, getter, last_key, last_attr, name, sdk) ==
  IF sdk.throws
  THEN Ret(Obj(<< <<name_key, name>>, <<"value", Obj(<<>>)>>,
                  <<"rule_id", Str(<<"error">>)>>, <<last_key, Null>> >>))
  ELSE Ret(Obj(<< <<name_key, name>>,
                  <<"value", IF "value" \in sdk.has \/ getter \in sdk.has THEN sdk.value
                             ELSE Obj(<<>>)>>,
                  <<"rule_id", IF "rule_id" \in sdk.has THEN Str(<<sdk.rule_id>>)
                               ELSE Str(<<"unknown">>)>>,
                  <<last_key, IF last_attr \in sdk.has THEN sdk.group_name ELSE Null>> >>))

get_dynamic_config(config_name, sdk) ==
  EvaluateOp("config_name", "get_value", "group_name", "group_name", config_name, sdk)
get_experiment(experiment_name, sdk) ==
  EvaluateOp("experiment_name", "get_value", "group_name", "group_name", experiment_name, sdk)
get_layer(layer_name, sdk) ==
  EvaluateOp("layer_name", "get_values", "allocated_experiment_name",
             "allocated_experiment_name", layer_name, sdk)

\* mutation of log_event: the except clause reports success
log_event_silent(event_name, sdk) ==
  Ret(Obj(<< <<"success", Bool(TRUE)>>,
             <<"message", Str(<<"Event '">> \o PyStr(event_name)
                              \o <<"' logged successfully">>)>> >>))

\* try/except of log_event
log_event(event_name, sdk) ==
  IF sdk.throws
  THEN Ret(Obj(<< <<"success", Bool(FALSE)>>,
                  <<"message", Str(<<"Failed to log event: ">> \o sdk.msg)>> >>))
  ELSE Ret(Obj(<< <<"success", Bool(TRUE)>>,
                  <<"message", Str(<<"Event '">> \o PyStr(event_name)
                                   \o <<"' logged successfully">>)>> >>))

SdkOps == {"check_feature_gate", "get_dynamic_config", "get_experiment", "get_layer",
           "log_event"}

\* StatsigUser(**user_data) raises for the attributes it does not accept, an
\* empty user_id among them
Rejects(user_attrs) == ~Truthy(Get(user_attrs, "user_id", Null))

\* one method of StatsigMCPClient, called on the client c with user_attrs and
\* a name; sdk is what the SDK call does
SdkMethod(op, c, user_attrs, name, sdk) ==
  IF ~c.initialized
  THEN Raise(Exc("RuntimeError", <<"Statsig client ", "not initialized">>))
  ELSE IF _create_statsig_user(user_attrs).raised THEN _create_statsig_user(user_attrs)
  ELSE IF Rejects(user_attrs)
  THEN Raise(Exc("StatsigValueError", <<"user_id is required">>))
  ELSE LET how == IF c.statsig = 0
                  THEN SdkThrows(<<"'NoneType' object has no attribute">>) ELSE sdk
       IN CASE op = "check_feature_gate" -> check_feature_gate(name, how)
            [] op = "get_dynamic_config" -> get_dynamic_config(name, how)
            [] op = "get_experiment" -> get_experiment(name, how)
            [] op = "get_layer" -> get_layer(name, how)
            [] op = "log_event" -> log_event(name, how)

\* whether the method reaches a call of the SDK instance
Invokes(c, user_attrs) ==
  /\ c.initialized
  /\ ~_create_statsig_user(user_attrs).raised
  /\ ~Rejects(user_attrs)
  /\ c.statsig # 0

\* -------------------------------------------------------------------- inputs
Absent == [t |-> "absent", v |-> 0]

\* the argument keys a call may carry, per tool, in the order they are sent
ArgKeys(name) ==
  CASE name = "query_events" -> <<"event_name", "limit">>
    [] name = "export_pulse_report" -> <<"experiment_id", "format">>
    [] name \in UpdateTools -> Subscripts(name) \o <<"description">>
    [] OTHER -> Subscripts(name)

ArgValues(k) ==
  CASE k = "limit" -> {Num(1)}
    [] k = "format" -> {Str(<<"json">>), Str(<<"csv">>), Str(<<"summary">>), Str(<<"xml">>)}
    [] k = "event_name" -> {Str(<<"ev1">>)}
    [] k = "description" -> {Str(<<"d1">>)}
    [] OTHER -> {Str(<<"x1">>), Str(<<"missing_id">>)}

RECURSIVE PairsOf(_, _, _)
PairsOf(ks, ch, i) ==
  IF i > Len(ks) THEN <<>>
  ELSE (IF ch[i] = Absent THEN <<>> ELSE << <<ks[i], ch[i]>> >>) \o PairsOf(ks, ch, i + 1)

\* every argument dict over ArgKeys(name): each key absent or one of its values
ArgMaps(name) ==
  LET ks == ArgKeys(name)
      all == UNION { ArgValues(ks[i]) : i \in 1..Len(ks) } \cup {Absent}
  IN { Obj(PairsOf(ks, ch, 1)) :
         ch \in { c \in [1..Len(ks) -> all] :
                    \A i \in 1..Len(ks) : c[i] = Absent \/ c[i] \in ArgValues(ks[i]) } }

UnknownNames == {"no_such_tool"}
AllNames == ToolNames \cup UnknownNames

Item1 == Obj(<< <<"id", Str(<<"i1">>)>>, <<"name", Str(<<"n1">>)>>,
                <<"description", Str(<<"d1">>)>>, <<"isEnabled", Bool(TRUE)>> >>)
\* an analytics body with one primary metric whose lift is the given value
Stats(lift) ==
  Obj(<< <<"experiment_id", Str(<<"x1">>)>>,
         <<"primary_metrics",
           Arr(<< Obj(<< <<"metric_name", Str(<<"m1">>)>>, <<"lift", lift>> >>) >>)>> >>)
Bodies200 == { Bad, Null, Arr(<<>>), Obj(<<>>), Item1,
               Obj(<< <<"data", Arr(<<Item1>>)>> >>),
               Stats(Num(1)), Stats(Str(<<"high">>)) }

\* what the awaited HTTP call of one request can produce
Outcomes ==
  { Thrown(Exc("ConnectError", <<"All connection attempts failed">>)),
    Thrown(Exc("ReadTimeout", <<>>)),
    Response(404, Bad), Response(500, Bad) }
  \cup { Response(200, b) : b \in Bodies200 }

ApiKeys == {"", "key"}


Secrets == {"", "secret"}
UserAttrs ==
  { Obj(<<>>),
    Obj(<< <<"user_id", Str(<<>>)>> >>),
    Obj(<< <<"user_id", Str(<<"u1">>)>> >>),
    Obj(<< <<"user_id", Str(<<"u1">>)>>, <<"user_email", Str(<<"a@b.c">>)>>,
           <<"user_country", Str(<<>>)>>, <<"custom_attributes",
                                            Obj(<< <<"plan", Str(<<"premium">>)>> >>)>> >>),
    Obj(<< <<"user_id", Str(<<"u2">>)>>, <<"user_ip", Str(<<"10.0.0.1">>)>>,
           <<"user_agent", Str(<<"curl">>)>>, <<"app_version", Str(<<>>)>>,
           <<"locale", Str(<<"en_US">>)>>, <<"private_attributes", Obj(<<>>)>> >>) }
EvalNames == {Str(<<"purchase">>)}
SdkBehaviours ==
  { SdkThrows(<<"evaluation failed">>), SdkThrows(<<>>),
    SdkObject({"value", "rule_id", "group_name"}, Bool(TRUE), "rule1", Str(<<"g1">>)),
    SdkObject({"value", "rule_id", "group_name", "allocated_experiment_name"},
              Obj(<< <<"k", Num(1)>> >>), "rule1", Str(<<"g1">>)),
    SdkObject({"get_value", "get_values"}, Obj(<< <<"k", Num(1)>> >>), "", Null),
    SdkObject({}, Null, "", Null) }

\* ------------------------------------------------------------------- state
VARIABLES
  environ,          \* os.environ["STATSIG_CONSOLE_API_KEY"], "" when unset
  statsig_client,   \* the global of server.py: 0 for None, else an index in clients
  clients,          \* the StatsigConsoleClient objects constructed so far
  handles,          \* state of each httpx.AsyncClient constructed so far
  tasks,            \* the call_tool coroutines
  closer,           \* the cleanup()/shutdown coroutine
  raised            \* exception that escaped the last lifecycle call, NoExc if none

\* state of the evaluation wrapper
VARIABLES
  sdk_module,       \* which import succeeded: "unloaded", "core" or "legacy"
  secret_env,       \* os.environ["STATSIG_SERVER_SECRET_KEY"], "" when unset
  sdk_client,       \* the StatsigMCPClient object: _initialized and _statsig
  sdk_handles,      \* state of each Statsig SDK instance constructed so far
  sdk_inits,        \* the StatsigMCPClient.initialize coroutines
  sdk_closer,       \* the StatsigMCPClient.shutdown coroutine
  sdk_call,         \* the last evaluation or logging call and what it gave
  sdk_raised,       \* exception that escaped the last initialize or shutdown
  sdk_invoked       \* the SDK method the last step of initialize or shutdown
                    \* called: "initialize", "shutdown", or "" if none

sdkVars == <<sdk_module, secret_env, sdk_client, sdk_handles, sdk_inits, sdk_closer,
             sdk_call, sdk_raised, sdk_invoked>>
consoleVars == <<environ, statsig_client, clients, handles, tasks, closer, raised>>

\* the process running main_sync(): where main() is, the --api-key flag it
\* was given, how its try block ended, the exit status (-1 while running),
\* and whether a tool call was served
VARIABLE proc
vars == <<consoleVars, sdkVars, proc>>

NoCall == [op |-> "", user_attrs |-> Obj(<<>>), name |-> Null, sdk |-> SdkThrows(<<>>),
           user |-> Null,
           at |-> "", result |-> Null, escaped |-> "", raised |-> NoExc,
           invoked |-> FALSE]

IdleTask ==
  [pc |-> "idle", name |-> "", arguments |-> Obj(<<>>), at |-> "", handle |-> 0,
   sent |-> 0, hstate |-> "", out |-> Thrown(Exc("", <<>>)), result |-> Null,
   reply |-> <<>>, escaped |-> "", raised |-> NoExc]

Init ==
  /\ environ \in ApiKeys
  /\ statsig_client = 0
  /\ clients = <<>>
  /\ handles = <<>>
  /\ tasks = [t \in 1..MaxTasks |-> IdleTask]
  /\ closer = [pc |-> "idle", c |-> 0, h |-> 0, run |-> 0]
  /\ raised = NoExc
  /\ sdk_module = "unloaded"
  /\ secret_env = ""
  /\ sdk_client = [initialized |-> FALSE, statsig |-> 0]
  /\ sdk_handles = <<>>
  /\ sdk_inits = [i \in 1..MaxSdkInits |-> [pc |-> "idle", h |-> 0]]
  /\ sdk_closer = [pc |-> "idle", h |-> 0, run |-> 0]
  /\ sdk_call = NoCall
  /\ sdk_raised = NoExc
  /\ sdk_invoked = ""
  /\ proc = [pc |-> "start", flag |-> "", how |-> "", exit |-> -1, served |-> FALSE]

\* run counts the shutdown calls that returned one after the other with no
\* initialize call in between, up to two; it is -1 while a shutdown is
\* suspended and an initialize call has run in the meantime
Again(run) == IF run < 0 THEN 0 ELSE IF run < 2 THEN run + 1 ELSE 2
Broken(cl) == IF cl.pc = "idle" THEN 0 ELSE -1

\* StatsigConsoleClient.__init__
NewClient == [initialized |-> FALSE, client |-> 0, console_api_key |-> "",
              api_version |-> "20240601", base_url |-> "https://statsigapi.net"]

\* httpx.AsyncClient(headers=...) encodes the header values as ASCII and
\* raises for a key it cannot encode
Encodable(key) == key # "non-ascii key"

\* mutation of initialize: the key read from the environment is not tested
initialize_unchecked(c, env, next_handle) ==
  IF c.initialized THEN [obj |-> c, made |-> 0, exc |-> NoExc]
  ELSE [obj |-> [c EXCEPT !.console_api_key = env, !.client = next_handle,
                          !.initialized = TRUE],
        made |-> next_handle, exc |-> NoExc]

\* StatsigConsoleClient.initialize on the object c, with the environment env:
\* the object after the call, the handle it constructed (0 if none) and the
\* exception it raised (NoExc if none)
initialize(c, env, next_handle) ==
  IF c.initialized THEN [obj |-> c, made |-> 0, exc |-> NoExc]
  ELSE IF env = ""
  THEN [obj |-> [c EXCEPT !.console_api_key = env], made |-> 0,
        exc |-> RequiredError("STATSIG_CONSOLE_API_KEY")]
  ELSE IF ~Encodable(env)
  THEN [obj |-> [c EXCEPT !.console_api_key = env], made |-> 0,
        exc |-> Exc("UnicodeEncodeError", <<"'ascii' codec can't encode characters">>)]
  ELSE [obj |-> [c EXCEPT !.console_api_key = env, !.client = next_handle,
                          !.initialized = TRUE],
        made |-> next_handle, exc |-> NoExc]

\* initialize_client(config): sets the environment variable, rebinds the
\* global to a new object, and runs its initialize (which has no await)
InitializeClient(api_key) ==
  /\ Len(clients) < MaxClients
  /\ LET r == initialize(NewClient, api_key, Len(handles) + 1)
     IN /\ r.made = 0 \/ Len(handles) < MaxHandles
        /\ environ' = api_key
        /\ clients' = Append(clients, r.obj)
        /\ statsig_client' = Len(clients) + 1
        /\ handles' = IF r.made = 0 THEN handles ELSE Append(handles, "open")
        /\ raised' = r.exc
  /\ closer' = [closer EXCEPT !.run = Broken(closer)]
  /\ UNCHANGED tasks

\* a further statsig_client.initialize() on the object the global holds
Initialize ==
  /\ statsig_client # 0
  /\ LET r == initialize(clients[statsig_client], environ, Len(handles) + 1)
     IN /\ r.made = 0 \/ Len(handles) < MaxHandles
        /\ clients' = [clients EXCEPT ![statsig_client] = r.obj]
        /\ handles' = IF r.made = 0 THEN handles ELSE Append(handles, "open")
        /\ raised' = r.exc
  /\ closer' = [closer EXCEPT !.run = Broken(closer)]
  /\ UNCHANGED <<environ, statsig_client, tasks>>

\* cleanup() up to the await in StatsigConsoleClient.shutdown, or to its end
\* when there is no handle to close
ShutdownBegin ==
  /\ closer.pc = "idle"
  /\ statsig_client # 0
  /\ LET c == clients[statsig_client]
     IN IF c.client # 0
        THEN /\ handles' = [handles EXCEPT ![c.client] = "closing"]
             /\ closer' = [closer EXCEPT !.pc = "aclose", !.c = statsig_client,
                                          !.h = c.client]
             /\ UNCHANGED clients
        ELSE /\ clients' = [clients EXCEPT ![statsig_client].initialized = FALSE]
             /\ closer' = [closer EXCEPT !.run = Again(closer.run)]
             /\ UNCHANGED handles
  /\ raised' = NoExc
  /\ UNCHANGED <<environ, statsig_client, tasks>>

\* mutation of ShutdownEnd: the handle is dropped and the flag is left set
ShutdownEnd_flag ==
  /\ closer.pc = "aclose"
  /\ handles' = [handles EXCEPT ![closer.h] = "closed"]
  /\ clients' = [clients EXCEPT ![closer.c].client = 0]
  /\ closer' = [pc |-> "idle", c |-> 0, h |-> 0, run |-> Again(closer.run)]
  /\ raised' = NoExc
  /\ UNCHANGED <<environ, statsig_client, tasks>>

\* aclose() returns: the rest of shutdown runs
ShutdownEnd ==
  /\ closer.pc = "aclose"
  /\ handles' = [handles EXCEPT ![closer.h] = "closed"]
  /\ clients' = [clients EXCEPT ![closer.c].client = 0, ![closer.c].initialized = FALSE]
  /\ closer' = [pc |-> "idle", c |-> 0, h |-> 0, run |-> Again(closer.run)]
  /\ raised' = NoExc
  /\ UNCHANGED <<environ, statsig_client, tasks>>

\* aclose() raises: the exception leaves shutdown and cleanup
ShutdownFail ==
  /\ closer.pc = "aclose"
  /\ handles' = [handles EXCEPT ![closer.h] = "closed"]
  /\ closer' = [pc |-> "idle", c |-> 0, h |-> 0, run |-> 0]
  /\ raised' = Exc("CloseError", <<>>)
  /\ UNCHANGED <<environ, statsig_client, clients, tasks>>

\* the environment variable is set or removed by the embedding program
SetEnviron(k) ==
  /\ environ # k
  /\ environ' = k
  /\ UNCHANGED <<statsig_client, clients, handles, tasks, closer, raised>>

\* what call_tool sees of the global when it is entered
ClientState ==
  IF statsig_client = 0 THEN "none"
  ELSE IF clients[statsig_client].initialized THEN "initialized"
  ELSE "uninitialized"

Done(task, reply) == [task EXCEPT !.pc = "done", !.reply = reply]

\* the try block of call_tool up to its first await, or to its return when it
\* does not reach one: the branch's subscripts, then the client method up to
\* its HTTP call; raised is the exception the client method raised
Branch(name, arguments, task) ==
  IF name \notin Branches THEN Done(task, UnknownToolReply(name))
  ELSE IF Missing(name, arguments) # {}
  THEN Done(task, ErrorReply(name, KeyErrorOf(FirstMissing(name, arguments))))
  ELSE LET c == clients[statsig_client]
           closed == ConsoleCall(name, Pargs(name, arguments), Thrown(ClosedClientError))
           none == ConsoleCall(name, Pargs(name, arguments), Thrown(NoneTypeError))
       IN IF ~Guard(name, c)
          THEN Done([task EXCEPT !.raised = GuardError(name)],
                    ErrorReply(name, GuardError(name)))
          ELSE IF c.client = 0
          THEN Done([task EXCEPT !.out = Thrown(NoneTypeError), !.result = none],
                    Finish(name, arguments, none))
          ELSE IF handles[c.client] # "open"
          THEN Done([task EXCEPT !.handle = c.client, !.sent = 1,
                                 !.hstate = handles[c.client],
                                 !.out = Thrown(ClosedClientError), !.result = closed],
                    Finish(name, arguments, closed))
          ELSE [task EXCEPT !.pc = "await", !.handle = c.client, !.sent = 1,
                            !.hstate = "open"]

NewTask(name, arguments) ==
  [IdleTask EXCEPT !.name = name, !.arguments = arguments, !.at = ClientState]

\* mutation of call_tool: the branch chain runs before the None test, so an
\* unknown name is answered without looking at the global
call_tool_chain_first(name, arguments) ==
  IF name \notin Branches THEN Done(NewTask(name, arguments), UnknownToolReply(name))
  ELSE IF statsig_client = 0 THEN Done(NewTask(name, arguments), NotInitializedReply)
  ELSE Branch(name, arguments, NewTask(name, arguments))

\* call_tool(name, arguments) from its entry to its first await
call_tool(name, arguments) ==
  IF statsig_client = 0 THEN Done(NewTask(name, arguments), NotInitializedReply)
  ELSE Branch(name, arguments, NewTask(name, arguments))

\* mutation of Formatted: the formatter pops the error entry off the envelope
\* it is given
Formatted_pop(task, out) ==
  LET result == ConsoleCall(task.name, Pargs(task.name, task.arguments), out)
  IN Done([task EXCEPT !.out = out,
                       !.result = IF IsObj(result) THEN Without(result, "error")
                                  ELSE result],
          Finish(task.name, task.arguments, result))

\* the task after its awaited HTTP call produced out: the client method
\* returns its envelope and the branch hands it to its formatter
Formatted(task, out) ==
  LET result == ConsoleCall(task.name, Pargs(task.name, task.arguments), out)
  IN Done([task EXCEPT !.out = out, !.result = result],
          Finish(task.name, task.arguments, result))

\* the coroutine slots are interchangeable: a new call takes the first free one
FreeSlot(t) == tasks[t].pc = "idle" /\ \A u \in 1..(t - 1) : tasks[u].pc # "idle"

CallToolBegin(t, names) ==
  /\ FreeSlot(t)
  /\ \E name \in names : \E arguments \in ArgMaps(name) :
       tasks' = [tasks EXCEPT ![t] = call_tool(name, arguments)]
  /\ UNCHANGED <<environ, statsig_client, clients, handles, closer, raised>>

\* mutation of CallToolEnd: a request that raised makes the method drop the
\* handle
CallToolEnd_drop(t, outs) ==
  /\ tasks[t].pc = "await"
  /\ \E out \in outs :
       LET task == tasks[t]
           result == ConsoleCall(task.name, Pargs(task.name, task.arguments), out)
       IN /\ tasks' = [tasks EXCEPT ![t] =
                         Done([task EXCEPT !.out = out, !.result = result],
                              Finish(task.name, task.arguments, result))]
          /\ clients' = IF out.kind = "exc"
                        THEN [clients EXCEPT ![statsig_client].client = 0]
                        ELSE clients
  /\ UNCHANGED <<environ, statsig_client, handles, closer, raised>>

\* the awaited HTTP call produces out; the method and call_tool run to the end
CallToolEnd(t, outs) ==
  /\ tasks[t].pc = "await"
  /\ \E out \in outs : tasks' = [tasks EXCEPT ![t] = Formatted(tasks[t], out)]
  /\ UNCHANGED <<environ, statsig_client, clients, handles, closer, raised>>

\* the coroutine is cancelled at its await: CancelledError is not an
\* Exception, so neither except clause catches it
Cancelled == [kind |-> "cancel", exc |-> Exc("CancelledError", <<>>), status |-> 0, body |-> Bad]
CallToolCancel(t) ==
  /\ tasks[t].pc = "await"
  /\ tasks' = [tasks EXCEPT ![t] = [@ EXCEPT !.pc = "done", !.out = Cancelled,
                                              !.escaped = "CancelledError"]]
  /\ UNCHANGED <<environ, statsig_client, clients, handles, closer, raised>>

\* the caller takes the reply; the coroutine object is gone
CallToolReturn(t) ==
  /\ tasks[t].pc = "done"
  /\ tasks' = [tasks EXCEPT ![t] = IdleTask]
  /\ UNCHANGED <<environ, statsig_client, clients, handles, closer, raised>>

Lifecycle ==
  \/ \E k \in ApiKeys : InitializeClient(k)
  \/ Initialize
  \/ ShutdownBegin
  \/ ShutdownEnd
  \/ ShutdownFail

\* one call_tool at a time, over the whole catalog and every outcome
Next ==
  /\ \/ Lifecycle
     \/ CallToolBegin(1, AllNames)
     \/ CallToolEnd(1, Outcomes)
     \/ CallToolCancel(1)
     \/ CallToolReturn(1)
  /\ UNCHANGED <<sdkVars, proc>>

Spec == Init /\ [][Next]_vars

\* concurrent call_tool coroutines on the one event loop, interleaved at their
\* awaits with a lifecycle whose credential is always present and whose
\* aclose() returns, over a few tools and outcomes
ConcNames == {"list_gates", "no_such_tool"}
ConcOutcomes == { Thrown(Exc("ConnectError", <<"All connection attempts failed">>)),
                  Response(200, Item1) }

NextConc ==
  /\ \/ InitializeClient("key")
     \/ Initialize
     \/ ShutdownBegin
     \/ ShutdownEnd
     \/ \E t \in 1..MaxTasks : CallToolBegin(t, ConcNames)
     \/ \E t \in 1..MaxTasks : CallToolEnd(t, ConcOutcomes)
     \/ \E t \in 1..MaxTasks : CallToolCancel(t)
     \/ \E t \in 1..MaxTasks : CallToolReturn(t)
  /\ UNCHANGED <<sdkVars, proc>>

SpecConc == Init /\ [][NextConc]_vars

\* the formatted reports: every tool of the catalog, one dispatch at a time
\* on an initialized client that is never shut down, over every outcome and
\* over bodies that carry items
ReportItem(i) ==
  Obj(<< <<"id", Str(<<"i", ToString(i)>>)>>, <<"name", Str(<<"n", ToString(i)>>)>>,
         <<"isEnabled", Bool(TRUE)>> >>)
TypedItem == Obj(<< <<"id", Str(<<"i1">>)>>, <<"name", Str(<<"n1">>)>>,
                    <<"type", Str(<<"holdout">>)>> >>)
ReportItems(n) == [i \in 1..n |-> ReportItem(i)]
ReportBodies ==
  { Obj(<< <<"data", Arr(ReportItems(n))>> >>) : n \in 0..MaxItems }
  \cup { Obj(<< <<"items", Arr(ReportItems(n))>> >>) : n \in 0..MaxItems }
  \cup { Obj(<< <<"data", Arr(ReportItems(n))>>, <<"total", Num(n + 1)>> >>) :
           n \in 0..MaxItems }
  \cup { Obj(<< <<"data", Arr(<<TypedItem>>)>> >>), Obj(<< <<"data", TypedItem>> >>),
         TypedItem, Obj(<< <<"name", Str(<<"n1">>)>>, <<"type", Str(<<"holdout">>)>> >>) }
ReportNames == ToolNames
ReportOutcomes == Outcomes \cup { Response(200, b) : b \in ReportBodies }

NextReport ==
  /\ \/ InitializeClient("key")
     \/ CallToolBegin(1, ReportNames)
     \/ CallToolEnd(1, ReportOutcomes)
     \/ CallToolReturn(1)
  /\ UNCHANGED <<sdkVars, proc>>

SpecReport == Init /\ [][NextReport]_vars

\* ------------------------------------------------------- main / main_sync
\* the --api-key values a run may be given, "" when the flag is absent
ApiKeyFlags == {"", "flagkey", "non-ascii key"}

\* get_configuration: args.api_key or os.getenv("STATSIG_CONSOLE_API_KEY")
get_configuration(flag, env) ==
  LET api_key == IF flag # "" THEN flag ELSE env
  IN IF api_key = "" THEN Raise(Exc("ValueError", <<"Statsig Console API key is required. ">>))
     ELSE Ret(api_key)

\* mutation of ExitStatus: the except Exception clause of main only prints
ExitStatus_printonly(how, close_ok, interrupt_wins) ==
  IF ~close_ok /\ ~(how = "interrupt" /\ interrupt_wins) THEN 1 ELSE 0

\* The exit status of the process.  how is the way the try block of main
\* ended: "config" (get_configuration raised), "return" (the server loop
\* returned), "exception" (it raised an Exception) or "interrupt"
\* (KeyboardInterrupt).  close_ok says whether cleanup() in the finally clause
\* returned.  When cleanup() raises after an interrupt, the exception that
\* reaches main_sync is the KeyboardInterrupt or the one cleanup raised,
\* depending on where the interrupt was delivered: interrupt_wins.
ExitStatus(how, close_ok, interrupt_wins) ==
  CASE how = "config" -> 1
    [] how = "exception" -> 1
    [] how = "return" -> IF close_ok THEN 0 ELSE 1
    [] how = "interrupt" -> IF close_ok \/ interrupt_wins THEN 0 ELSE 1

Exited(how, status) == [proc EXCEPT !.pc = "exited", !.how = how, !.exit = status]

\* main() from its entry to the server loop, or to the exit of the process:
\* when the configuration is missing the global is still None and cleanup()
\* does nothing; when initialize() raises the global holds the new object,
\* the except clause exits with 1 and cleanup() in the finally clause calls
\* shutdown on it, which finds no handle and has no await
MainStart(flag) ==
  /\ proc.pc = "start"
  /\ statsig_client = 0
  /\ LET config == get_configuration(flag, environ)
         r == initialize(NewClient, config.val, Len(handles) + 1)
     IN IF config.raised
        THEN /\ proc' = [Exited("config", ExitStatus("config", TRUE, FALSE))
                                EXCEPT !.flag = flag]
             /\ UNCHANGED consoleVars
        ELSE IF r.exc # NoExc
        THEN /\ Len(clients) < MaxClients
             /\ environ' = config.val
             /\ clients' = Append(clients, [r.obj EXCEPT !.initialized = FALSE])
             /\ statsig_client' = Len(clients) + 1
             /\ closer' = [closer EXCEPT !.run = Again(Broken(closer))]
             /\ raised' = NoExc
             /\ UNCHANGED <<handles, tasks>>
             /\ proc' = [Exited("exception", ExitStatus("exception", TRUE, FALSE))
                                EXCEPT !.flag = flag]
        ELSE /\ InitializeClient(config.val)
             /\ proc' = [proc EXCEPT !.pc = "serving", !.flag = flag]

\* a tool call arrives while the server loop runs
MainServe ==
  /\ proc.pc = "serving"
  /\ CallToolBegin(1, ConcNames)
  /\ proc' = [proc EXCEPT !.served = TRUE]

\* mutation of MainLoopEnd: cleanup() is called at the end of the try block
\* instead of in a finally clause, so sys.exit(1) in the except clause leaves
\* main without it
MainLoopEnd_try(how) ==
  /\ proc.pc = "serving"
  /\ IF how = "exception"
     THEN /\ proc' = Exited(how, 1)
          /\ UNCHANGED consoleVars
     ELSE /\ ShutdownBegin
          /\ proc' = IF closer'.pc = "aclose" THEN [proc EXCEPT !.pc = "cleanup", !.how = how]
                     ELSE Exited(how, ExitStatus(how, TRUE, FALSE))

\* the server loop ends and the finally clause calls cleanup(), which runs
\* shutdown up to its await
MainLoopEnd(how) ==
  /\ proc.pc = "serving"
  /\ ShutdownBegin
  /\ proc' = IF closer'.pc = "aclose" THEN [proc EXCEPT !.pc = "cleanup", !.how = how]
             ELSE Exited(how, ExitStatus(how, TRUE, FALSE))

\* aclose() returns, cleanup() returns, the process exits
MainCleanupEnd ==
  /\ proc.pc = "cleanup"
  /\ ShutdownEnd
  /\ proc' = Exited(proc.how, ExitStatus(proc.how, TRUE, FALSE))

\* aclose() raises, the exception leaves cleanup() and main()
MainCleanupFail(interrupt_wins) ==
  /\ proc.pc = "cleanup"
  /\ ShutdownFail
  /\ proc' = Exited(proc.how, ExitStatus(proc.how, FALSE, interrupt_wins))

\* one run of the process
NextMain ==
  /\ \/ \E flag \in ApiKeyFlags : MainStart(flag)
     \/ MainServe
     \/ \E how \in {"return", "exception", "interrupt"} : MainLoopEnd(how)
     \/ MainCleanupEnd
     \/ \E interrupt_wins \in BOOLEAN : MainCleanupFail(interrupt_wins)
     \/ proc.pc # "exited" /\ CallToolEnd(1, ConcOutcomes) /\ UNCHANGED proc
     \/ proc.pc # "exited" /\ CallToolCancel(1) /\ UNCHANGED proc
     \/ proc.pc # "exited" /\ CallToolReturn(1) /\ UNCHANGED proc
  /\ UNCHANGED sdkVars

SpecMain == Init /\ [][NextMain]_vars

\* the runs of main that finish: the server loop ends, and the aclose()
\* that cleanup() awaits returns or raises
SpecMainFair ==
  /\ Init /\ [][NextMain]_vars
  /\ WF_vars(/\ \E how \in {"return", "exception", "interrupt"} : MainLoopEnd(how)
             /\ UNCHANGED sdkVars)
  /\ WF_vars(/\ MainCleanupEnd \/ \E interrupt_wins \in BOOLEAN : MainCleanupFail(interrupt_wins)
             /\ UNCHANGED sdkVars)

\* ------------------------------------------- StatsigMCPClient lifecycle
\* the try/except ImportError at the top of statsig_client.py
ImportSdk(core) ==
  /\ sdk_module = "unloaded"
  /\ sdk_module' = IF core THEN "core" ELSE "legacy"
  /\ UNCHANGED <<secret_env, sdk_client, sdk_handles, sdk_inits, sdk_closer, sdk_call,
                 sdk_raised, sdk_invoked>>

\* the caller sets or clears STATSIG_SERVER_SECRET_KEY
SetSecret(k) ==
  /\ secret_env # k
  /\ secret_env' = k
  /\ UNCHANGED <<sdk_module, sdk_client, sdk_handles, sdk_inits, sdk_closer, sdk_call,
                 sdk_raised, sdk_invoked>>

Loaded == sdk_module # "unloaded"

\* StatsigMCPClient.initialize up to its await (core SDK) or to its end
\* (legacy SDK, whose initialize is synchronous; ok says whether it succeeds)
SdkInitializeBegin(i, ok) ==
  /\ Loaded
  /\ sdk_inits[i].pc = "idle" /\ \A j \in 1..(i - 1) : sdk_inits[j].pc # "idle"
  /\ IF sdk_client.initialized
     THEN /\ sdk_raised' = NoExc
          /\ sdk_invoked' = ""
          /\ UNCHANGED <<sdk_client, sdk_handles, sdk_inits>>
     ELSE IF secret_env = ""
     THEN /\ sdk_raised' = RequiredError("STATSIG_SERVER_SECRET_KEY")
          /\ sdk_invoked' = ""
          /\ UNCHANGED <<sdk_client, sdk_handles, sdk_inits>>
     ELSE IF sdk_module = "core"
     THEN /\ Len(sdk_handles) < MaxSdkHandles
          /\ sdk_handles' = Append(sdk_handles, "initializing")
          /\ sdk_client' = [sdk_client EXCEPT !.statsig = Len(sdk_handles) + 1]
          /\ sdk_inits' = [sdk_inits EXCEPT ![i] = [pc |-> "await", h |-> Len(sdk_handles) + 1]]
          /\ sdk_raised' = NoExc
          /\ sdk_invoked' = "initialize"
     ELSE /\ sdk_handles' = <<IF ok THEN "live" ELSE "failed">>
          /\ sdk_client' = [initialized |-> ok, statsig |-> 1]
          /\ sdk_raised' = IF ok THEN NoExc ELSE Exc("Exception", <<>>)
          /\ sdk_invoked' = "initialize"
          /\ UNCHANGED sdk_inits
  /\ sdk_closer' = [sdk_closer EXCEPT !.run = Broken(sdk_closer)]
  /\ UNCHANGED <<sdk_module, secret_env, sdk_call>>

\* the awaited Statsig.initialize() of the core SDK returns (ok) or raises
SdkInitializeEnd(i, ok) ==
  /\ sdk_inits[i].pc = "await"
  /\ sdk_inits' = [sdk_inits EXCEPT ![i] = [pc |-> "idle", h |-> 0]]
  /\ sdk_handles' = [sdk_handles EXCEPT ![sdk_inits[i].h] =
                       IF @ = "initializing" THEN (IF ok THEN "live" ELSE "failed") ELSE @]
  /\ sdk_client' = IF ok THEN [sdk_client EXCEPT !.initialized = TRUE] ELSE sdk_client
  /\ sdk_raised' = IF ok THEN NoExc ELSE Exc("Exception", <<>>)
  /\ sdk_invoked' = ""
  /\ sdk_closer' = [sdk_closer EXCEPT !.run = Broken(sdk_closer)]
  /\ UNCHANGED <<sdk_module, secret_env, sdk_call>>

\* StatsigMCPClient.shutdown up to its await (core SDK) or to its end
SdkShutdownBegin ==
  /\ Loaded
  /\ sdk_closer.pc = "idle"
  /\ IF sdk_client.initialized /\ sdk_client.statsig # 0
     THEN /\ sdk_invoked' = "shutdown"
          /\ IF sdk_module = "core"
             THEN /\ sdk_handles' = [sdk_handles EXCEPT ![sdk_client.statsig] = "shutting"]
                  /\ sdk_closer' = [sdk_closer EXCEPT !.pc = "await", !.h = sdk_client.statsig]
                  /\ UNCHANGED sdk_client
             ELSE /\ sdk_handles' = [sdk_handles EXCEPT ![sdk_client.statsig] = "shutdown"]
                  /\ sdk_client' = [initialized |-> FALSE, statsig |-> 0]
                  /\ sdk_closer' = [sdk_closer EXCEPT !.run = Again(sdk_closer.run)]
     ELSE /\ sdk_closer' = [sdk_closer EXCEPT !.run = Again(sdk_closer.run)]
          /\ sdk_invoked' = ""
          /\ UNCHANGED <<sdk_client, sdk_handles>>
  /\ sdk_raised' = NoExc
  /\ UNCHANGED <<sdk_module, secret_env, sdk_inits, sdk_call>>

\* the awaited Statsig.shutdown() returns or raises an Exception: the except
\* clause logs it and the finally clause runs either way
SdkShutdownEnd ==
  /\ sdk_closer.pc = "await"
  /\ sdk_handles' = [sdk_handles EXCEPT ![sdk_closer.h] = "shutdown"]
  /\ sdk_client' = [initialized |-> FALSE, statsig |-> 0]
  /\ sdk_closer' = [pc |-> "idle", h |-> 0, run |-> Again(sdk_closer.run)]
  /\ sdk_raised' = NoExc
  /\ sdk_invoked' = ""
  /\ UNCHANGED <<sdk_module, secret_env, sdk_inits, sdk_call>>

\* one evaluation or logging method, which has no await: it runs from entry
\* to return in one step, the SDK call behaving as one of SdkBehaviours
SdkCall ==
  /\ Loaded
  /\ sdk_call = NoCall
  /\ \E op \in SdkOps : \E user_attrs \in UserAttrs : \E name \in EvalNames :
       \E sdk \in SdkBehaviours :
         LET r == SdkMethod(op, sdk_client, user_attrs, name, sdk)
         IN sdk_call' = [op |-> op, user_attrs |-> user_attrs, name |-> name, sdk |-> sdk,
                         user |-> IF sdk_client.initialized
                                  THEN _create_statsig_user(user_attrs).val ELSE Null,
                         at |-> IF sdk_client.initialized THEN "initialized"
                                ELSE "uninitialized",
                         result |-> r.val,
                         escaped |-> IF r.raised THEN r.exc.type ELSE "",
                         raised |-> r.exc,
                         invoked |-> Invokes(sdk_client, user_attrs)]
  /\ UNCHANGED <<sdk_module, secret_env, sdk_client, sdk_handles, sdk_inits, sdk_closer,
                 sdk_raised, sdk_invoked>>

\* the caller takes the result
SdkCallReturn ==
  /\ sdk_call # NoCall
  /\ sdk_call' = NoCall
  /\ UNCHANGED <<sdk_module, secret_env, sdk_client, sdk_handles, sdk_inits, sdk_closer,
                 sdk_raised, sdk_invoked>>

\* the evaluation wrapper alone
NextSDK ==
  /\ \/ \E core \in BOOLEAN : ImportSdk(core)
     \/ \E k \in Secrets : SetSecret(k)
     \/ \E i \in 1..MaxSdkInits : \E ok \in BOOLEAN : SdkInitializeBegin(i, ok)
     \/ \E i \in 1..MaxSdkInits : \E ok \in BOOLEAN : SdkInitializeEnd(i, ok)
     \/ SdkShutdownBegin
     \/ SdkShutdownEnd
     \/ SdkCall
     \/ SdkCallReturn
  /\ UNCHANGED <<consoleVars, proc>>

SpecSDK == Init /\ [][NextSDK]_vars

SdkLifecycle ==
  \/ \E core \in BOOLEAN : ImportSdk(core)
  \/ \E k \in Secrets : SetSecret(k)
  \/ \E i \in 1..MaxSdkInits : \E ok \in BOOLEAN : SdkInitializeBegin(i, ok)
  \/ \E i \in 1..MaxSdkInits : \E ok \in BOOLEAN : SdkInitializeEnd(i, ok)
  \/ SdkShutdownBegin
  \/ SdkShutdownEnd

\* the lifecycle of one of the two clients, with no tool call: the Console
\* client in a process that has not loaded the SDK, or the evaluation
\* wrapper in a process that has made no Console client
NextLife ==
  \/ sdk_module = "unloaded" /\ secret_env = "" /\ Lifecycle
       /\ UNCHANGED <<sdkVars, proc>>
  \/ sdk_module = "unloaded" /\ secret_env = "" /\ (\E k \in ApiKeys : SetEnviron(k))
       /\ UNCHANGED <<sdkVars, proc>>
  \/ statsig_client = 0 /\ SdkLifecycle /\ UNCHANGED <<consoleVars, proc>>

SpecLife == Init /\ [][NextLife]_vars

\* a process that uses one of the two clients: the Console client through
\* call_tool, or the evaluation wrapper
NextEither ==
  \/ sdk_module = "unloaded" /\ secret_env = "" /\ Next
  \/ statsig_client = 0 /\ (\A t \in 1..MaxTasks : tasks[t].pc = "idle") /\ NextSDK

SpecEither == Init /\ [][NextEither]_vars

\* ------------------------------------------------------------------ claims
Started(task) == task.pc # "idle"
Finished(task) == task.pc = "done"
OneText(reply) == Len(reply) = 1 /\ reply[1].type = "text"

\* C1: call_tool entered while the global statsig_client is None returns one
\* text item saying the client is not initialized, raises nothing and sends
\* no HTTP request, whatever the name and the arguments.
C1_NotInitialized ==
  \A t \in 1..MaxTasks :
    (Started(tasks[t]) /\ tasks[t].at = "none")
      => /\ Finished(tasks[t])
         /\ OneText(tasks[t].reply)
         /\ Contains(tasks[t].reply[1].text, "not initialized")
         /\ tasks[t].escaped = ""
         /\ tasks[t].sent = 0

C1_Witness ==
  \E t \in 1..MaxTasks :
    /\ Finished(tasks[t]) /\ tasks[t].at = "none"
    /\ tasks[t].name \in UnknownNames

\* C2: on an initialized client, a call of a tool that leaves out an argument
\* its schema requires returns one error text that names a missing required
\* argument, raises nothing and sends no HTTP request.
C2_MissingArgument ==
  \A t \in 1..MaxTasks :
    LET task == tasks[t]
        absent == { k \in list_tools(task.name) : ~Has(task.arguments, k) }
    IN (Started(task) /\ task.at = "initialized" /\ task.name \in ToolNames
        /\ absent # {})
         => /\ Finished(task)
            /\ OneText(task.reply)
            /\ Contains(task.reply[1].text, "Error calling tool ")
            /\ \E k \in absent : Contains(task.reply[1].text, k)
            /\ task.escaped = ""
            /\ task.sent = 0

C2_Witness ==
  \E t \in 1..MaxTasks :
    /\ Finished(tasks[t]) /\ tasks[t].at = "initialized"
    /\ tasks[t].name = "get_metric_details"
    /\ Has(tasks[t].arguments, "metric_id")
    /\ ~Has(tasks[t].arguments, "experiment_id")
    /\ Contains(tasks[t].reply[1].text, "experiment_id")

\* C3: on an initialized client, a call whose name is not in the catalog
\* returns one text item that says the tool is unknown and names it, raises
\* nothing and sends no HTTP request.
C3_UnknownTool ==
  \A t \in 1..MaxTasks :
    LET task == tasks[t]
    IN (Started(task) /\ task.at = "initialized" /\ task.name \notin ToolNames)
         => /\ Finished(task)
            /\ OneText(task.reply)
            /\ Contains(task.reply[1].text, "Unknown tool: ")
            /\ Contains(task.reply[1].text, task.name)
            /\ task.escaped = ""
            /\ task.sent = 0

C3_Witness ==
  \E t \in 1..MaxTasks :
    /\ Finished(tasks[t]) /\ tasks[t].at = "initialized"
    /\ tasks[t].name \in UnknownNames
    /\ OneText(tasks[t].reply)

IsFalse(x) == x.t = "bool" /\ x.v = FALSE
IsTrue(x) == x.t = "bool" /\ x.v = TRUE
\* the task sent its HTTP request and the backend (not a cancellation)
\* decided how the await ended
Answered(task) == Finished(task) /\ task.sent = 1 /\ task.out.kind \in {"exc", "resp"}
Is404(task) == Answered(task) /\ task.out.kind = "resp" /\ task.out.status = 404
\* the backend outcome is a failure: no response, a non-2xx status, or a body
\* that is not JSON
FailureOutcome(out) ==
  out.kind = "exc" \/ out.status < 200 \/ out.status > 299 \/ out.body = Bad

\* C4 (as claimed): every operation of an initialized Console client returns
\* a map for every backend outcome, lets no exception escape, and the map
\* carries an error entry whenever the outcome is a failure.
C4_FailSoftEnvelope ==
  \A t \in 1..MaxTasks :
    LET task == tasks[t]
    IN (Answered(task) /\ task.at = "initialized")
         => /\ task.escaped = ""
            /\ IsObj(task.result)
            /\ (FailureOutcome(task.out) => Has(task.result, "error"))

\* the resource word each lookup puts in its not-found error
C6_ResourceWord(name) ==
  CASE name = "get_gate" -> "Gate"
    [] name = "get_experiment" -> "Experiment"
    [] name = "get_dynamic_config" -> "Dynamic config"
    [] name = "get_segment" -> "Segment"
    [] name = "get_metric" -> "Metric"
    [] name = "get_target_app" -> "Target app"

\* C6: each of the six single-item lookups answers a backend 404 with
\* {found: False, error: "<Resource> '<id>' not found"} without raising, and
\* the text call_tool returns for the call contains "not found".
C6_LookupNotFound ==
  \A t \in 1..MaxTasks :
    LET task == tasks[t]
        id == Get(task.arguments, CHOOSE k \in list_tools(task.name) : TRUE, Null)
        error == Get(task.result, "error", Null)
    IN (Is404(task) /\ task.name \in GetTools)
         => /\ task.escaped = ""
            /\ IsObj(task.result)
            /\ Keys(task.result) = {"found", "error"}
            /\ IsFalse(Get(task.result, "found", Null))
            /\ IsStr(error)
            /\ error.v = <<C6_ResourceWord(task.name), " '">> \o id.v \o <<"' ", "not found">>
            /\ OneText(task.reply)
            /\ Contains(task.reply[1].text, "not found")

C6_Witness ==
  \E t \in 1..MaxTasks :
    /\ Is404(tasks[t]) /\ tasks[t].name = "get_target_app"
    /\ Get(tasks[t].arguments, "app_id", Null) = Str(<<"missing_id">>)
    /\ Contains(tasks[t].reply[1].text, "not found")

C7_ByName(task) ==
  LET r == task.result
      error == Get(r, "error", Null)
      message == Get(r, "message", Null)
      statusText == <<"Client error '", "404", " ", "Not Found", "' for url">>
  IN CASE task.name \in GetTools ->
            /\ IsFalse(Get(r, "found", Null))
            /\ IsStr(error) /\ Contains(error.v, "not found")
       [] task.name = "get_user_by_email"
          \/ (task.name = "query_events" /\ Has(task.arguments, "event_name")) ->
            /\ IsFalse(Get(r, "found", Null))
            /\ ~Has(r, "error")
            /\ IsStr(message) /\ Contains(message.v, "not found")
       [] OTHER ->
            /\ IsStr(error) /\ error.v = statusText
            /\ ~Has(r, "found")
            /\ IF task.name \in CreateTools \cup UpdateTools \cup DeleteTools
                                \cup AnalyticsTools
               THEN IsFalse(Get(r, "success", Null))
               ELSE ~Has(r, "success")

C8_UniformEnvelope ==
  \A t \in 1..MaxTasks :
    LET task == tasks[t]
        r == task.result
    IN Answered(task)
         => /\ IsObj(r)
            /\ Keys(r) = {"success", "data", "error"}
            /\ Get(r, "success", Null).t = "bool"
            /\ IsObj(Get(r, "data", Null))
            /\ Get(r, "error", Bad).t \in {"str", "null"}

\* C8 (amended): the four analytics operations (get_experiment_results,
\* get_experiment_pulse, get_metric_details, export_pulse_report) return, on
\* success and on failure, a map with exactly the fields success, data and
\* error: success True, the parsed body as data and error null when the
\* backend answered 2xx with a JSON body; success False, an empty map as
\* data and the exception text as error otherwise.
C8_AnalyticsEnvelope ==
  \A t \in 1..MaxTasks :
    LET task == tasks[t]
        r == task.result
        success == Get(r, "success", Null)
        data == Get(r, "data", Null)
        error == Get(r, "error", Bad)
    IN (Answered(task) /\ task.name \in AnalyticsTools)
         => /\ IsObj(r)
            /\ Keys(r) = {"success", "data", "error"}
            /\ success.t = "bool"
            /\ success.v = ~FailureOutcome(task.out)
            /\ IF success.v THEN IsNull(error) /\ data = task.out.body
               ELSE IsStr(error) /\ data = Obj(<<>>)

C8_Witness ==
  \E t \in 1..MaxTasks :
    /\ Answered(tasks[t]) /\ tasks[t].name = "get_experiment_pulse"
    /\ tasks[t].out.kind = "resp" /\ tasks[t].out.status = 500
    /\ IsFalse(Get(tasks[t].result, "success", Null))

\* the key under which each evaluation result echoes the requested name
C5_NameKey(op) ==
  CASE op = "check_feature_gate" -> "gate_name"
    [] op = "get_dynamic_config" -> "config_name"
    [] op = "get_experiment" -> "experiment_name"
    [] op = "get_layer" -> "layer_name"

\* the call reached the SDK evaluation call
Evaluated(call) ==
  /\ call.op \in SdkOps \ {"log_event"}
  /\ call.at = "initialized"
  /\ Has(call.user_attrs, "user_id")
  /\ ~Rejects(call.user_attrs)

\* C5: on an initialized SDK client, when the SDK evaluation call throws,
\* check_feature_gate returns value False and get_dynamic_config,
\* get_experiment and get_layer return an empty value map, each with rule_id
\* "error" and the requested name echoed, and nothing is raised.
C5_SafeDefaults ==
  (Evaluated(sdk_call) /\ sdk_call.sdk.throws)
    => /\ sdk_call.escaped = ""
       /\ IsObj(sdk_call.result)
       /\ Get(sdk_call.result, C5_NameKey(sdk_call.op), Null) = sdk_call.name
       /\ Get(sdk_call.result, "rule_id", Null) = Str(<<"error">>)
       /\ IF sdk_call.op = "check_feature_gate"
          THEN IsFalse(Get(sdk_call.result, "value", Null))
          ELSE Get(sdk_call.result, "value", Null) = Obj(<<>>)

C5_Witness ==
  /\ Evaluated(sdk_call) /\ sdk_call.sdk.throws
  /\ sdk_call.op = "get_layer"
  /\ Get(sdk_call.result, "rule_id", Null) = Str(<<"error">>)

\* handles that are live: constructed and not closed, shut down or failed
LiveHttp == { h \in 1..Len(handles) : handles[h] = "open" }
LiveSdk == { h \in 1..Len(sdk_handles) : sdk_handles[h] \in {"initializing", "live"} }

\* C10 (as claimed): at every moment at most one underlying handle is live,
\* an httpx client that is open or a Statsig instance that is initializing
\* or initialized, whatever the sequence or interleaving of initialize_client
\* and initialize calls.
C10_SingleLiveHandle == Cardinality(LiveHttp) <= 1 /\ Cardinality(LiveSdk) <= 1

\* C9 (as claimed): in every interleaving of initialize, concurrent dispatches
\* and shutdown, no HTTP request is attempted on a handle that shutdown has
\* begun closing or has closed, and a dispatch entered after shutdown answers
\* one error text and attempts no request.
C9_NoUseAfterShutdown ==
  \A t \in 1..MaxTasks :
    Started(tasks[t]) =>
      /\ tasks[t].sent = 1 => tasks[t].hstate = "open"
      /\ tasks[t].at = "uninitialized" =>
           /\ tasks[t].sent = 0
           /\ OneText(tasks[t].reply)
           /\ tasks[t].reply[1].text[1] \in {"Error calling tool ", "Unknown tool: "}

\* ---------------------------------------------------------------- C11
\* the second of two shutdown calls in succession on the Console client
C11_ConsoleAgain ==
  (ShutdownBegin /\ closer.run >= 1)
    => /\ raised' = NoExc
       /\ handles' = handles
       /\ closer'.pc = "idle"
       /\ clients' = clients
       /\ ~clients'[statsig_client].initialized
       /\ clients'[statsig_client].client = 0

\* the second of two shutdown calls in succession on the SDK client
C11_SdkAgain ==
  (SdkShutdownBegin /\ sdk_closer.run >= 1 /\ \A i \in 1..MaxSdkInits : sdk_inits[i].pc = "idle")
    => /\ sdk_raised' = NoExc
       /\ sdk_handles' = sdk_handles
       /\ sdk_closer'.pc = "idle"
       /\ sdk_client' = sdk_client
       /\ ~sdk_client'.initialized
       /\ sdk_client'.statsig = 0

\* C11 (as claimed): a shutdown call that follows a returned shutdown call on
\* the same client, with no initialize call in between or in flight, raises
\* nothing, closes no handle, and leaves the client as it was: uninitialized
\* and without a handle.  This holds for cleanup and the Console client and
\* for the SDK client.
C11_IdempotentShutdown == [][C11_ConsoleAgain /\ C11_SdkAgain]_vars

\* the part of C11 that is about cleanup and the Console client
C11_ConsoleIdempotent == [][C11_ConsoleAgain]_vars

\* ---------------------------------------------------------------- C12
C12_NoCredential == proc.flag = "" /\ environ = ""

C12_StartupAborts ==
  (proc.pc # "start" /\ C12_NoCredential) =>
    /\ proc.pc = "exited"
    /\ proc.exit > 0
    /\ handles = <<>>
    /\ statsig_client = 0
    /\ ~proc.served

C12_WitnessInterrupt ==
  /\ proc.pc = "exited" /\ proc.how = "interrupt" /\ proc.exit = 0
  /\ proc.served /\ raised = NoExc /\ handles = <<"closed">>

\* ---------------------------------------------------------------- C13
\* the call just made raised the ValueError that names the variable
C13_Names(exc, variable) ==
  exc.type = "ValueError" /\ \E i \in 1..Len(exc.msg) : exc.msg[i] = variable

\* a step that runs StatsigConsoleClient.initialize with the variable empty
C13_ConsoleCall == (Initialize /\ environ = "") \/ InitializeClient("")

C13_SdkCall == secret_env = "" /\ \E i \in 1..MaxSdkInits : \E ok \in BOOLEAN : SdkInitializeBegin(i, ok)

C13_ConsoleRaises ==
  /\ C13_Names(raised', "STATSIG_CONSOLE_API_KEY")
  /\ ~clients'[statsig_client'].initialized
  /\ clients'[statsig_client'].client = 0
  /\ handles' = handles

C13_SdkRaises ==
  /\ C13_Names(sdk_raised', "STATSIG_SERVER_SECRET_KEY")
  /\ ~sdk_client'.initialized
  /\ sdk_client' = sdk_client
  /\ sdk_handles' = sdk_handles

\* C13 (as claimed): every call of initialize on either client made while its
\* credential variable is unset or empty raises a ValueError naming the
\* variable, leaves the client uninitialized and constructs no handle.
C13_MissingCredential ==
  [][(C13_ConsoleCall => C13_ConsoleRaises) /\ (C13_SdkCall => C13_SdkRaises)]_vars

\* C13 (amended): the same for every call of initialize on a client that is
\* not initialized; an initialized client returns at once without reading
\* the variable.
C13_MissingCredentialUninit ==
  [][/\ (C13_ConsoleCall /\ ~(statsig_client' = statsig_client /\ clients[statsig_client].initialized))
          => C13_ConsoleRaises
     /\ (C13_SdkCall /\ ~sdk_client.initialized) => C13_SdkRaises]_vars

\* the Console client has just refused to initialize for want of its variable
C13_Witness ==
  /\ C13_Names(raised, "STATSIG_CONSOLE_API_KEY")
  /\ environ = ""
  /\ statsig_client # 0 /\ ~clients[statsig_client].initialized
  /\ clients[statsig_client].client = 0 /\ handles = <<>>

\* the SDK client has just refused to initialize for want of its variable
C13_WitnessSdk ==
  /\ C13_Names(sdk_raised, "STATSIG_SERVER_SECRET_KEY")
  /\ secret_env = "" /\ Loaded
  /\ ~sdk_client.initialized /\ sdk_client.statsig = 0 /\ sdk_handles = <<>>

\* ---------------------------------------------------------------- C14
C14_Console ==
  \A t \in 1..MaxTasks :
    LET task == tasks[t]
    IN (Started(task) /\ task.at = "uninitialized" /\ task.name \in Branches
          /\ Missing(task.name, task.arguments) = {})
         => /\ task.raised.type = "RuntimeError"
            /\ Contains(task.raised.msg, "not initialized")
            /\ task.sent = 0 /\ task.handle = 0

C14_Sdk ==
  (sdk_call # NoCall /\ sdk_call.at = "uninitialized")
    => /\ sdk_call.raised.type = "RuntimeError"
       /\ Contains(sdk_call.raised.msg, "not initialized")
       /\ sdk_call.escaped = "RuntimeError"
       /\ ~sdk_call.invoked

\* C14: every operation called on a client whose initialized flag is false
\* raises a RuntimeError whose message contains "not initialized" and makes
\* no HTTP request and no SDK call, whatever the credential variable holds.
C14_NotInitializedRaises == C14_Console /\ C14_Sdk

\* an operation was called on a Console client that was shut down, with the
\* credential variable set
C14_Witness ==
  /\ environ = "key"
  /\ statsig_client # 0 /\ ~clients[statsig_client].initialized
  /\ handles = <<"closed">>
  /\ tasks[1].pc = "done" /\ tasks[1].at = "uninitialized"
  /\ tasks[1].name = "get_experiment_results"
  /\ tasks[1].raised.type = "RuntimeError"

\* an operation was called on an evaluation wrapper that was shut down, with
\* the credential variable set
C14_WitnessSdk ==
  /\ secret_env # ""
  /\ sdk_call # NoCall /\ sdk_call.at = "uninitialized"
  /\ sdk_call.raised.type = "RuntimeError"
  /\ \E h \in 1..Len(sdk_handles) : sdk_handles[h] = "shutdown"

\* ---------------------------------------------------------------- C15
C15_InitBegin == \E i \in 1..MaxSdkInits : \E ok \in BOOLEAN : SdkInitializeBegin(i, ok)

\* a call of initialize that finds the flag clear and the secret set calls
\* the SDK's initialize once when it starts, and not again when it resumes;
\* when it returns normally the flag is set
C15_Initialize ==
  /\ (C15_InitBegin /\ ~sdk_client.initialized /\ secret_env # "")
       => /\ sdk_invoked' = "initialize"
          /\ (sdk_module = "legacy" /\ sdk_raised' = NoExc) => sdk_client'.initialized
  /\ (\E i \in 1..MaxSdkInits : SdkInitializeEnd(i, TRUE))
       => sdk_invoked' = "" /\ sdk_client'.initialized
  /\ (\E i \in 1..MaxSdkInits : SdkInitializeEnd(i, FALSE)) => sdk_invoked' = ""

\* a call of shutdown that finds the flag set calls the SDK's shutdown once
\* when it starts, and not again when it resumes; when it returns the flag
\* is clear
C15_Shutdown ==
  /\ (SdkShutdownBegin /\ sdk_client.initialized)
       => /\ sdk_invoked' = "shutdown"
          /\ sdk_closer'.pc = "idle" => ~sdk_client'.initialized
  /\ SdkShutdownEnd => sdk_invoked' = "" /\ ~sdk_client'.initialized

\* initialize on a client whose flag is set, and shutdown on a client whose
\* flag is clear, call nothing of the SDK and leave the flag as it is
C15_Repeated ==
  /\ (C15_InitBegin /\ sdk_client.initialized)
       => sdk_invoked' = "" /\ sdk_client' = sdk_client
  /\ (SdkShutdownBegin /\ ~sdk_client.initialized)
       => sdk_invoked' = "" /\ sdk_client'.initialized = sdk_client.initialized

\* C15 (as claimed): on the SDK client a successful initialize sets the flag
\* and calls the SDK's initialize exactly once, a following shutdown clears
\* the flag and calls the SDK's shutdown exactly once, and initialize on an
\* initialized client or shutdown on a shut-down client calls nothing.
C15_Lifecycle == [][C15_Initialize /\ C15_Shutdown /\ C15_Repeated]_vars

C15_InitializeOnce == [][C15_Initialize /\ C15_Repeated]_vars

\* ---------------------------------------------------------------- C16
\* C16 (as claimed): every dispatch sends at most one HTTP request and ends
\* with exactly one result, so a failed request is answered by one result
\* and never sent again.
C16_SingleAttempt ==
  \A t \in 1..MaxTasks :
    /\ tasks[t].sent <= 1
    /\ Finished(tasks[t]) => Len(tasks[t].reply) = 1 /\ tasks[t].escaped = ""

\* no retry: every dispatch sends at most one HTTP request, and a dispatch
\* whose request got an answer or failed returns exactly one result
C16_NoRetry ==
  \A t \in 1..MaxTasks :
    /\ tasks[t].sent <= 1
    /\ (Finished(tasks[t]) /\ tasks[t].out.kind # "cancel")
         => Len(tasks[t].reply) = 1 /\ tasks[t].escaped = ""

\* a dispatch whose one request failed has returned its one result
C16_FailedOnce ==
  /\ Finished(tasks[1]) /\ tasks[1].sent = 1 /\ tasks[1].out.kind = "exc"
  /\ tasks[1].hstate = "open" /\ Len(tasks[1].reply) = 1

\* ---------------------------------------------------------------- C18
\* C18 (as claimed): a dispatch cancelled while its HTTP request is in flight
\* ends with one text item that describes the cancellation, and no exception
\* leaves call_tool.
C18_CancelEnvelope ==
  \A t \in 1..MaxTasks :
    (Finished(tasks[t]) /\ tasks[t].out.kind = "cancel")
      => /\ tasks[t].escaped = ""
         /\ OneText(tasks[t].reply)
         /\ \E i \in 1..Len(tasks[t].reply[1].text) :
              tasks[t].reply[1].text[i] \in {"CancelledError", "cancelled", "Cancelled"}

\* ---------------------------------------------------------------- C17
\* a step of a dispatch is a step that changes a task
C17_DispatchStep == tasks' # tasks

\* what a dispatch is given: its name and arguments, the client as it found
\* it, and what its HTTP request produced
C17_Given(task) ==
  <<task.name, task.arguments, task.at, task.sent, task.hstate, task.out>>

C17_Frame ==
  C17_DispatchStep
    => /\ statsig_client' = statsig_client
       /\ clients' = clients
       /\ handles' = handles
       /\ environ' = environ

C17_NoMemory ==
  \A t, u \in 1..MaxTasks :
    (Finished(tasks[t]) /\ Finished(tasks[u]) /\ C17_Given(tasks[t]) = C17_Given(tasks[u]))
      => tasks[t].reply = tasks[u].reply /\ tasks[t].escaped = tasks[u].escaped

\* C17: every step of a dispatch leaves the global, the client objects
\* (initialized flag, handle, base URL, API key, API version) and the handles
\* as they were; and in every interleaving, two dispatches given the same
\* name, arguments and backend response by the same client end with the
\* same text.
C17_DispatchFrame == [][C17_Frame]_vars /\ []C17_NoMemory

\* two interleaved dispatches of one tool got the same answer from an
\* initialized client and both have returned their text
C17_Witness ==
  /\ Finished(tasks[1]) /\ Finished(tasks[2])
  /\ tasks[1].name = "list_gates" /\ C17_Given(tasks[1]) = C17_Given(tasks[2])
  /\ tasks[1].at = "initialized" /\ tasks[1].sent = 1 /\ tasks[1].out.kind = "resp"
  /\ clients[statsig_client].initialized /\ handles[clients[statsig_client].client] = "open"

\* ---------------------------------------------------------------- C19
\* C19: for every tool name, declared or not, every argument map and every
\* backend outcome (no response, an error status, a body that is not JSON,
\* not an object, or whose statistical fields are not numbers), call_tool
\* returns exactly one text item and lets no exception escape.
C19_AlwaysOneText ==
  \A t \in 1..MaxTasks :
    (Finished(tasks[t]) /\ tasks[t].out.kind # "cancel")
      => OneText(tasks[t].reply) /\ tasks[t].escaped = ""

\* get_experiment_results got a 200 answer whose lift is a string: the
\* formatter raised and call_tool answered with its one error text
C19_Witness ==
  /\ Finished(tasks[1]) /\ tasks[1].name = "get_experiment_results"
  /\ tasks[1].sent = 1 /\ tasks[1].out = Response(200, Stats(Str(<<"high">>)))
  /\ OneText(tasks[1].reply) /\ tasks[1].reply[1].text[1] = "Error calling tool "
  /\ Contains(tasks[1].reply[1].text, "unsupported format string")

\* ---------------------------------------------------------------- C20
\* the text opens with the error mark of the formatters or with the words of
\* call_tool's except clause, or says that the thing asked for was not found
C20_Marked(text) ==
  \/ text[1] \in {MarkError, "Error calling tool "}
  \/ Contains(text, "not found")

\* the backend call of the dispatch failed: its request was sent on an open
\* handle and raised, or was answered with a non-2xx status, or with a body
\* that is not JSON (the update and delete methods do not read the body)
C20_Failed(task) ==
  /\ Answered(task) /\ task.hstate = "open"
  /\ \/ task.out.kind = "exc"
     \/ task.out.status < 200 \/ task.out.status > 299
     \/ task.out.body = Bad /\ task.name \notin UpdateTools \cup DeleteTools

\* C20 (as claimed): whenever the request of a dispatch fails (no response
\* with any exception message, the empty one included, a non-2xx status, or
\* a body that is not JSON), the text returned carries a failure marker.
C20_FailureMarked ==
  \A t \in 1..MaxTasks :
    C20_Failed(tasks[t])
      => OneText(tasks[t].reply) /\ C20_Marked(tasks[t].reply[1].text)

\* the same for the failures whose exception message is not empty
C20_NonEmptyMessage ==
  \A t \in 1..MaxTasks :
    (C20_Failed(tasks[t]) /\ ~(tasks[t].out.kind = "exc" /\ tasks[t].out.exc.msg = <<>>))
      => OneText(tasks[t].reply) /\ C20_Marked(tasks[t].reply[1].text)

\* ---------------------------------------------------------------- C21
\* the call is a log_event that reached the logging call of the SDK instance
C21_Logged(call) ==
  /\ call.op = "log_event"
  /\ call.at = "initialized"
  /\ call.invoked

\* C21: on an initialized SDK client, log_event returns success true with
\* the message "Event '<event_name>' logged successfully" when the logging
\* call of the SDK succeeds, and returns success false with a message that
\* contains the error text, raising nothing, when the logging call throws.
C21_LogEventResult ==
  C21_Logged(sdk_call)
    => /\ sdk_call.escaped = ""
       /\ IF sdk_call.sdk.throws
          THEN /\ IsFalse(Get(sdk_call.result, "success", Null))
               /\ Get(sdk_call.result, "message", Null).t = "str"
               /\ \A i \in 1..Len(sdk_call.sdk.msg) :
                    Contains(Get(sdk_call.result, "message", Null).v, sdk_call.sdk.msg[i])
          ELSE sdk_call.result =
                 Obj(<< <<"success", Bool(TRUE)>>,
                        <<"message", Str(<<"Event '">> \o sdk_call.name.v
                                         \o <<"' logged successfully">>)>> >>)

C21_Witness ==
  /\ C21_Logged(sdk_call)
  /\ sdk_call.sdk = SdkThrows(<<"evaluation failed">>)
  /\ sdk_call.result = Obj(<< <<"success", Bool(FALSE)>>,
                              <<"message", Str(<<"Failed to log event: ",
                                                 "evaluation failed">>)>> >>)

C21_WitnessLogged ==
  /\ C21_Logged(sdk_call)
  /\ ~sdk_call.sdk.throws
  /\ IsTrue(Get(sdk_call.result, "success", Null))

\* ---------------------------------------------------------------- C22
\* C22 (as claimed): on an initialized SDK client, check_feature_gate,
\* get_dynamic_config, get_experiment, get_layer and log_event raise nothing
\* past the wrapper, whatever the user attribute map (one without user_id and
\* one the user constructor of the SDK rejects included) and whatever the SDK
\* does.
C22_NeverRaises ==
  (sdk_call.op \in SdkOps /\ sdk_call.at = "initialized") => sdk_call.escaped = ""

\* what does hold: nothing is raised once the user object has been built
C22_RaisesOnlyBuildingUser ==
  (sdk_call.op \in SdkOps /\ sdk_call.at = "initialized" /\ sdk_call.escaped # "")
    => /\ sdk_call.escaped \in {"KeyError", "StatsigValueError"}
       /\ \/ ~Has(sdk_call.user_attrs, "user_id")
          \/ Rejects(sdk_call.user_attrs)

C22_WitnessKeyError ==
  /\ sdk_call.op = "log_event" /\ sdk_call.at = "initialized"
  /\ sdk_call.user_attrs = Obj(<<>>)
  /\ sdk_call.escaped = "KeyError"

\* ---------------------------------------------------------------- C23
\* the items a list body carries: the array under "data", or under "items"
\* when it has no "data"
C23_Carried(body) == Get(body, "data", Get(body, "items", Arr(<<>>)))

\* a list tool was answered with status 200 and a body that carries an array
\* of items
C23_ListAnswer(task) ==
  /\ Answered(task) /\ task.name \in ListTools
  /\ task.out.kind = "resp" /\ task.out.status = 200
  /\ IsObj(task.out.body) /\ IsArr(C23_Carried(task.out.body))

\* the number of entries the text enumerates
C23_Entries(text) == Cardinality({ i \in 1..Len(text) : text[i] = MarkBullet })

\* the text of n items: "(n found)" in the header, n entries, and the words
\* "No items found" when n = 0
C23_Counts(text, n) ==
  /\ Len(text) >= 5
  /\ text[3] = " (" /\ text[4] = ToString(n) /\ text[5] = " found)"
  /\ C23_Entries(text) = n
  /\ n = 0 => Contains(text, "   No items found")

\* C23 (as claimed): for every list operation whose backend response carries
\* n items (0 <= n), the header of the text states "(n found)" and the text
\* enumerates exactly n entries; for n = 0 it states that no items were found.
C23_CountFound ==
  \A t \in 1..MaxTasks :
    C23_ListAnswer(tasks[t])
      => /\ OneText(tasks[t].reply)
         /\ C23_Counts(tasks[t].reply[1].text, Len(C23_Carried(tasks[t].out.body).v))

\* the same for the bodies that carry no "total" entry
C23_CountFoundNoTotal ==
  \A t \in 1..MaxTasks :
    (C23_ListAnswer(tasks[t]) /\ ~Has(tasks[t].out.body, "total"))
      => /\ OneText(tasks[t].reply)
         /\ C23_Counts(tasks[t].reply[1].text, Len(C23_Carried(tasks[t].out.body).v))

C23_WitnessCounted ==
  /\ C23_ListAnswer(tasks[1]) /\ ~Has(tasks[1].out.body, "total")
  /\ Len(C23_Carried(tasks[1].out.body).v) = MaxItems
  /\ C23_Entries(tasks[1].reply[1].text) = MaxItems

C23_WitnessTotal ==
  /\ C23_ListAnswer(tasks[1])
  /\ Len(C23_Carried(tasks[1].out.body).v) = 1
  /\ tasks[1].reply[1].text[4] = "2"

\* ---------------------------------------------------------------- C24
\* the text shows the key k of a data map: its name as the formatter writes
\* it, or else the whole of its value
C24_Rendered(text, k, v) ==
  \/ Contains(text, Title(k))
  \/ \A i \in 1..Len(PyStr(v)) : Contains(text, PyStr(v)[i])

C24_AllRendered(text, data, skipped) ==
  \A i \in 1..Len(data.v) :
    data.v[i][1] \notin skipped => C24_Rendered(text, data.v[i][1], data.v[i][2])

\* the data map of an item envelope
C24_Data(body) == Get(body, "data", body)

\* a get tool was answered with an envelope that has no error and a
\* populated data map
C24_ItemAnswer(task) ==
  /\ Answered(task) /\ task.name \in GetTools
  /\ task.out.kind = "resp" /\ task.out.status = 200
  /\ IsObj(task.out.body) /\ ~Has(task.out.body, "error")
  /\ IsObj(C24_Data(task.out.body)) /\ Len(C24_Data(task.out.body).v) > 0

\* a list tool was answered with an envelope that has no error and whose
\* items are maps
C24_ListAnswer(task) ==
  /\ C23_ListAnswer(task) /\ ~Has(task.out.body, "error")
  /\ Len(C23_Carried(task.out.body).v) > 0
  /\ \A i \in 1..Len(C23_Carried(task.out.body).v) : IsObj(C23_Carried(task.out.body).v[i])

C24_Shows(task, skipped) ==
  /\ C24_ItemAnswer(task)
       => /\ OneText(task.reply)
          /\ C24_AllRendered(task.reply[1].text, C24_Data(task.out.body), skipped)
  /\ C24_ListAnswer(task)
       => /\ OneText(task.reply)
          /\ \A i \in 1..Len(C23_Carried(task.out.body).v) :
               C24_AllRendered(task.reply[1].text, C23_Carried(task.out.body).v[i], skipped)

\* C24 (as claimed): the item report and the list report of an envelope that
\* has no error and a populated data map show every key of that map (for a
\* list, every key of every item): no key of the data is absent from the text.
C24_EveryKeyRendered == \A t \in 1..MaxTasks : C24_Shows(tasks[t], {})

\* what does hold: the keys other than "id" and "type" of these bodies are shown
C24_KnownKeysRendered == \A t \in 1..MaxTasks : C24_Shows(tasks[t], {"id", "type"})

C24_WitnessItem ==
  /\ C24_ItemAnswer(tasks[1]) /\ tasks[1].out.body = TypedItem
  /\ OneText(tasks[1].reply)
  /\ Contains(tasks[1].reply[1].text, "Type")
  /\ ~C24_Rendered(tasks[1].reply[1].text, "id", Str(<<"i1">>))

C24_WitnessList ==
  /\ C24_ListAnswer(tasks[1])
  /\ tasks[1].out.body = Obj(<< <<"data", Arr(<<TypedItem>>)>> >>)
  /\ OneText(tasks[1].reply)
  /\ ~C24_Rendered(tasks[1].reply[1].text, "type", Str(<<"holdout">>))

\* ---------------------------------------------------------------- C25
\* the step in which the branch of task t formats the envelope of its
\* client method
C25_Formats(t) ==
  /\ tasks[t].pc = "await" /\ tasks'[t].pc = "done"
  /\ tasks'[t].out.kind \in {"exc", "resp"}

C26_RejectedFor(task, k) ==
  /\ Finished(task) /\ task.sent = 0
  /\ task.reply = ErrorReply(task.name, KeyErrorOf(k))

\* C26: for every tool of the catalog, the arguments whose absence the
\* dispatcher rejects are those the schema of the tool declares as required
\* (a call is rejected for a missing argument exactly when a required one is
\* absent, and the argument named is required and absent), and every name of
\* the catalog is handled by a branch: none gets the unknown-tool text.
C26_RequiredMatchesDispatch ==
  \A t \in 1..MaxTasks :
    LET task == tasks[t]
    IN (Finished(task) /\ task.at # "none" /\ task.name \in ToolNames)
         => /\ task.reply # UnknownToolReply(task.name)
            /\ (\E k \in list_tools(task.name) : ~Has(task.arguments, k))
                 <=> (\E i \in 1..Len(ArgKeys(task.name)) :
                        C26_RejectedFor(task, ArgKeys(task.name)[i]))
            /\ \A i \in 1..Len(ArgKeys(task.name)) :
                 C26_RejectedFor(task, ArgKeys(task.name)[i])
                   => /\ ArgKeys(task.name)[i] \in list_tools(task.name)
                      /\ ~Has(task.arguments, ArgKeys(task.name)[i])

\* a call without the optional argument is served, one without the required
\* argument is rejected
C26_Witness ==
  /\ Finished(tasks[1]) /\ tasks[1].at = "initialized"
  /\ tasks[1].name = "create_gate" /\ tasks[1].arguments = Obj(<<>>)
  /\ C26_RejectedFor(tasks[1], "name")

C26_WitnessOptional ==
  /\ Answered(tasks[1]) /\ tasks[1].name = "update_gate"
  /\ Has(tasks[1].arguments, "gate_id") /\ ~Has(tasks[1].arguments, "description")
  /\ tasks[1].out.kind = "resp" /\ tasks[1].out.status = 200

\* ---------------------------------------------------------------- C27
\* attribute of the map -> keyword of the SDK user constructor
C27_Keyword ==
  { <<"user_email", "email">>, <<"user_country", "country">>, <<"user_ip", "ip">>,
    <<"custom_attributes", "custom">>, <<"user_agent", "user_agent">>,
    <<"app_version", "app_version">>, <<"locale", "locale">>,
    <<"private_attributes", "private_attributes">> }

\* a method of an initialized client built the user of a map with user_id
C27_Built(call) ==
  /\ call.op \in SdkOps /\ call.at = "initialized"
  /\ Has(call.user_attrs, "user_id")

\* C27: for every user attribute map that contains user_id, the SDK user is
\* constructed with user_id and with exactly the optional fields whose
\* attribute is present and not empty, under the keywords email, country, ip
\* and custom for user_email, user_country, user_ip and custom_attributes and
\* under their own name for user_agent, app_version, locale and
\* private_attributes; an absent or empty attribute is not passed.
C27_UserMapping ==
  C27_Built(sdk_call)
    => /\ IsObj(sdk_call.user)
       /\ Get(sdk_call.user, "user_id", Null) = Get(sdk_call.user_attrs, "user_id", Null)
       /\ Keys(sdk_call.user) \subseteq {"user_id"} \cup { p[2] : p \in C27_Keyword }
       /\ \A p \in C27_Keyword :
            IF Has(sdk_call.user_attrs, p[1]) /\ Truthy(Get(sdk_call.user_attrs, p[1], Null))
            THEN Get(sdk_call.user, p[2], Null) = Get(sdk_call.user_attrs, p[1], Null)
            ELSE ~Has(sdk_call.user, p[2])

C27_Witness ==
  /\ C27_Built(sdk_call)
  /\ Has(sdk_call.user_attrs, "user_country") /\ Has(sdk_call.user_attrs, "custom_attributes")
  /\ sdk_call.user = Obj(<< <<"user_id", Str(<<"u1">>)>>, <<"email", Str(<<"a@b.c">>)>>,
                            <<"custom", Obj(<< <<"plan", Str(<<"premium">>)>> >>)>> >>)

C27_WitnessUnchanged ==
  /\ C27_Built(sdk_call)
  /\ Keys(sdk_call.user) = {"user_id", "ip", "user_agent", "locale"}

\* ---------------------------------------------------------------- C28
\* C28: in every state of a StatsigConsoleClient reached by interleaving
\* initialize, operations and shutdown, a set initialized flag implies a
\* handle that is not None, so the four analytics operations, whose guard
\* tests the flag alone, never dereference a None handle.
C28_FlagImpliesHandle ==
  /\ \A c \in 1..Len(clients) : clients[c].initialized => clients[c].client # 0
  /\ \A t \in 1..MaxTasks :
       (Started(tasks[t]) /\ tasks[t].name \in AnalyticsTools)
         => tasks[t].out # Thrown(NoneTypeError)

\* an analytics operation answered on the handle of a client that was shut
\* down and initialized again
C28_Witness ==
  /\ Answered(tasks[1]) /\ tasks[1].name \in AnalyticsTools
  /\ tasks[1].handle = 2 /\ tasks[1].hstate = "open"
  /\ handles[1] = "closed"
  /\ Len(clients) = 1 /\ clients[1].initialized /\ clients[1].client = 2

\* ---------------------------------------------------------------- C29
\* the step in which a StatsigConsoleClient.shutdown that reached aclose()
\* ends, by returning or by raising
C29_ConsoleShutdownEnds == closer.pc = "aclose" /\ closer'.pc = "idle"

\* the step in which a StatsigMCPClient.shutdown that reached the shutdown
\* of the SDK ends
C29_SdkShutdownEnds ==
  \/ sdk_closer.pc = "await" /\ sdk_closer'.pc = "idle"
  \/ sdk_closer.pc = "idle" /\ sdk_closer'.pc = "idle"
     /\ sdk_invoked # "shutdown" /\ sdk_invoked' = "shutdown"

C29_ConsoleCleared ==
  C29_ConsoleShutdownEnds
    => ~clients'[closer.c].initialized /\ clients'[closer.c].client = 0

C29_SdkCleared ==
  C29_SdkShutdownEnds => sdk_client' = [initialized |-> FALSE, statsig |-> 0]

\* a dispatch that starts when the last lifecycle call was a shutdown of the
\* client the global holds is rejected as not initialized
C29_LaterRejected ==
  \A t \in 1..MaxTasks :
    (/\ tasks[t].pc = "idle" /\ tasks'[t].pc # "idle"
     /\ statsig_client # 0 /\ closer.pc = "idle"
     /\ (closer.run >= 1 \/ raised = Exc("CloseError", <<>>))
     /\ tasks'[t].name \in ToolNames
     /\ Missing(tasks'[t].name, tasks'[t].arguments) = {})
      => /\ tasks'[t].sent = 0
         /\ tasks'[t].raised = GuardError(tasks'[t].name)

\* C29 (as claimed): after shutdown is invoked on an initialized client of
\* either kind the client is uninitialized and holds no handle, also when
\* the close operation fails, and later operations are rejected as not
\* initialized.
C29_ShutdownClears == [][C29_ConsoleCleared /\ C29_SdkCleared /\ C29_LaterRejected]_vars

\* what does hold: the SDK wrapper, whose shutdown clears both fields in a
\* finally clause
C29_SdkShutdownClears == [][C29_SdkCleared]_vars

\* aclose() raised: the Console client is still initialized on a closed handle
C29_WitnessCloseFails ==
  /\ raised = Exc("CloseError", <<>>) /\ closer.pc = "idle"
  /\ statsig_client # 0
  /\ clients[statsig_client].initialized
  /\ clients[statsig_client].client # 0
  /\ handles[clients[statsig_client].client] = "closed"

C29_WitnessSdk ==
  /\ sdk_invoked = "shutdown" /\ sdk_closer.pc = "idle"
  /\ sdk_client = [initialized |-> FALSE, statsig |-> 0]
  /\ Len(sdk_handles) > 0

\* ---------------------------------------------------------------- C30
\* main constructed the client object the global holds
C30_Constructed == statsig_client # 0

\* shutdown has been invoked on it: it is suspended in aclose(), or it
\* returned, or aclose() raised out of it
C30_Invoked ==
  \/ closer.pc = "aclose"
  \/ closer.run >= 1
  \/ raised = Exc("CloseError", <<>>)

\* C30: every run of main that constructed the client object invokes
\* shutdown on it before main finishes, on every exit path: the server loop
\* returning, an exception that leads to exit status 1, a keyboard
\* interrupt, and initialize() failing after the object was constructed.
C30_ShutdownBeforeExit ==
  /\ []((proc.pc = "exited" /\ C30_Constructed) => C30_Invoked)
  /\ (C30_Constructed ~> (C30_Invoked /\ proc.pc = "exited"))

\* initialize() raised after the object was constructed, and shutdown ran
C30_Witness ==
  /\ proc.pc = "exited" /\ proc.flag = "non-ascii key" /\ proc.how = "exception"
  /\ proc.exit = 1
  /\ C30_Constructed /\ handles = <<>>
  /\ closer.run = 1 /\ ~clients[statsig_client].initialized

\* the server loop raised and the handle was closed before the exit with 1
C30_WitnessException ==
  /\ proc.pc = "exited" /\ proc.how = "exception" /\ proc.exit = 1
  /\ handles = <<"closed">> /\ closer.run = 1

====
